---- MODULE Spec2Model ----
(***************************************************************************)
(* Identity linking, request approval and subscription lifecycle of the    *)
(* Jellyfin Telegram admin bot (src/app/jelly_admin_with_upi.py).          *)
(*                                                                         *)
(* The event thread (run -> handle_update) handles one update at a time,   *)
(* so every handler is one action.  The subscription monitor runs on its   *)
(* own thread and is split into the steps of one pass, which interleave    *)
(* with the handlers.  Media-server calls succeed or fail                  *)
(* nondeterministically.  The stale-data sweeper runs on a third thread;   *)
(* where it is followed, a decision is split at the point where it has     *)
(* fetched its request.                                                    *)
(***************************************************************************)
EXTENDS Integers, FiniteSets, Sequences, TLC

VARIABLES
    users,               \* users.json: jellyfin id -> user record
    telegram_to_userid,  \* chat-id index: telegram id -> jellyfin id
    username_to_uid,     \* username index: lower-case username -> jellyfin id
    admins,              \* admin lookup table: telegram id -> jellyfin id
    pending,             \* pending.json: requester telegram id -> request
    awaiting_username,   \* telegram ids asked for a username by /register
    prompts,             \* approval buttons delivered to admins: <<kind, requester>>
    subscriptions,       \* subscriptions.json: jellyfin id -> [expires_at]
    payment_requests,    \* payment_requests.json: request id -> request
    pay_prompts,         \* payment buttons delivered to admins: request ids
    jf,                  \* accounts on the media server: id -> [name, enabled]
    now,                 \* time.time(), in seconds
    mon_pc,              \* position of the subscription monitor in its pass
    expired_users,       \* the monitor's snapshot of expired entries
    message_ids,         \* the messages in the admin chats are followed
    admin_request_messages, \* request key -> admin id -> message id
    buttons,             \* messages in admin chats that still show buttons
    approval_lock,       \* approval_lock is held
    decision,            \* the decision the event thread is in the middle of
    last                 \* history: the operation handled by the last step

idVars  == <<users, telegram_to_userid, username_to_uid, admins>>
reqVars == <<pending, awaiting_username, prompts>>
subVars == <<subscriptions, payment_requests, pay_prompts>>
monVars == <<mon_pc, expired_users>>
promptVars == <<admin_request_messages, buttons>>
restVars == <<message_ids, approval_lock, decision>>
vars == <<users, telegram_to_userid, username_to_uid, admins, pending,
          awaiting_username, prompts, subscriptions, payment_requests,
          pay_prompts, jf, now, mon_pc, expired_users, message_ids,
          admin_request_messages, buttons, approval_lock, decision, last>>

----------------------------------------------------------------------------
(* Program constants *)

ROLE_ADMIN      == "admin"
ROLE_PRIVILEGED == "privileged"
ROLE_REGULAR    == "regular"
SECONDS_PER_DAY == 86400

\* telegram_id None (and every falsy telegram id) of a user record
NoTelegramId == 0
\* Python's None for a jellyfin id
NoUser == "none"

\* config["subscription_plans"]: plan id -> duration_days
subscription_plans == [p \in {"1day", "1week"} |->
                         IF p = "1day" THEN 1 ELSE 7]

----------------------------------------------------------------------------
(* Bounds of the model *)

\* the admins at startup; their chats are the telegram ids 1..MaxAdmins, and
\* user commands come from the chat after them
MaxAdmins == 2
\* days the clock may advance
MaxDays == 1
\* payment requests kept in the table
MaxPayments == 1
\* days a subscription may run beyond the last day of the clock
MaxAheadDays == 8
\* messages recorded for one request key and one admin id
MaxPrompts == 2

TgIds == 1 .. (MaxAdmins + 1)
Requesters == {MaxAdmins + 1}
AdminNames == <<"root", "boss", "chief">>
\* usernames a requester may ask for, and account names on the media server
RegNames == {"ann"}
Usernames == {"root", "boss", "chief", "bob", "ann", "Bob", "Ann"}
\* the accounts admin commands and link requests are aimed at
Managed == {"bob", "ann"}
\* days an admin extends a subscription by
Days == {3, 5}
\* the ids a payment request can get: "<tg_id>_<time>"
RequestIds == {<<t, d * SECONDS_PER_DAY>> : t \in Requesters, d \in 0 .. MaxDays}
\* no activation is taken beyond this expiry
MaxExpiry == (MaxDays + MaxAheadDays) * SECONDS_PER_DAY

----------------------------------------------------------------------------
(* Dictionaries *)

Put(d, k, v) == [x \in (DOMAIN d) \cup {k} |-> IF x = k THEN v ELSE d[x]]
Pop(d, k)    == [x \in (DOMAIN d) \ {k} |-> d[x]]
EmptyDict    == [x \in {} |-> 0]

\* str.lower() on the usernames of the model
Lower(n) == IF n = "Ann" THEN "ann" ELSE IF n = "Bob" THEN "bob" ELSE n

----------------------------------------------------------------------------
(* The history record of a step *)

NoReq == <<0, 0>>

\* the event thread is between two updates
NoDecision == << >>

\* the kind of the PendingRequest stored for a chat, "none" without one
RequestKind(chat) ==
    IF chat \in DOMAIN pending THEN pending[chat].type ELSE "none"

\* op: the handler; chat: the requester's chat id; uid: the jellyfin id it
\* resolved; before: what the request was when the handler started; calls and
\* failed: the media-server calls made and those that failed; notified: the
\* chats sent an expiry notice; req, days, prev: a payment request id, the days
\* added and the expiry found by an activation; stale: the chat ids a startup
\* removed from the chat-id index
Step(op, chat, uid, outcome) ==
    [op |-> op, chat |-> chat, uid |-> uid, outcome |-> outcome,
     before |-> RequestKind(chat), calls |-> {}, failed |-> {}, notified |-> {},
     req |-> NoReq, days |-> 0, prev |-> 0, stale |-> {}]

WithCalls(s, calls, failed) == [s EXCEPT !.calls = calls, !.failed = failed]

----------------------------------------------------------------------------
(* Lookups *)

\* get_user_by_telegram_id: the jellyfin id, or NoUser
get_user_by_telegram_id(tg_id) ==
    IF tg_id \in DOMAIN telegram_to_userid
          /\ telegram_to_userid[tg_id] \in DOMAIN users
    THEN telegram_to_userid[tg_id]
    ELSE NoUser

\* get_user_by_username: the jellyfin id, or NoUser
get_user_by_username(username) ==
    IF Lower(username) \in DOMAIN username_to_uid
          /\ username_to_uid[Lower(username)] \in DOMAIN users
    THEN username_to_uid[Lower(username)]
    ELSE NoUser

\* update_telegram_mapping / remove_telegram_mapping on a mapping m
update_telegram_mapping(m, telegram_id, jellyfin_user_id) ==
    IF telegram_id # NoTelegramId THEN Put(m, telegram_id, jellyfin_user_id) ELSE m

remove_telegram_mapping(m, telegram_id) ==
    IF telegram_id # NoTelegramId THEN Pop(m, telegram_id) ELSE m

\* a faulty variant: the username is indexed as typed
username_mapping_as_typed(m, username, jellyfin_user_id) ==
    Put(m, username, jellyfin_user_id)
update_username_mapping(m, username, jellyfin_user_id) ==
    Put(m, Lower(username), jellyfin_user_id)

\* a faulty variant: the username stays indexed
username_mapping_kept(m, username) == m
\* remove_username_mapping
remove_username_mapping(m, username) == Pop(m, Lower(username))

\* notify_admins: a prompt with the buttons of `kind` goes to every admin
notify_admins(kind, uid) ==
    IF DOMAIN admins # {} THEN prompts \cup {<<kind, uid>>} ELSE prompts

----------------------------------------------------------------------------
(* The prompt table.  A message is known by the request key and the admin   *)
(* id it was recorded under and by its message id, which grows with every   *)
(* message sent for that key to that admin.  Sends and edits reach          *)
(* Telegram.  The table is read by update_admin_request_buttons only and    *)
(* the buttons a message still shows by nothing in the program, so a        *)
(* behaviour that starts with message_ids = FALSE leaves both aside (as if  *)
(* sendMessage answered without a message id, when record_admin_request     *)
(* returns at once) and is otherwise the same.                              *)

\* f"{request_type}:{uid}" and f"pay:{request_id}"
RequestKey(type, uid) == <<type, uid, 0>>
PaymentKey(request_id) == <<"pay", request_id[1], request_id[2]>>

\* the admin id a message is recorded under: notify_admins and the payment
\* handler iterate over the keys of the admin table, which are strings;
\* handle_pending passes the chat id of the update, an integer
StrId(tg_id) == <<"str", tg_id>>
IntId(tg_id) == <<"int", tg_id>>

\* admin_request_messages.get(request_key, {})
MessagesOf(table, request_key) ==
    IF request_key \in DOMAIN table THEN table[request_key] ELSE EmptyDict

\* the message id sendMessage answers with
NextMessageId(table, request_key, admin_id) ==
    IF admin_id \in DOMAIN MessagesOf(table, request_key)
    THEN MessagesOf(table, request_key)[admin_id] + 1
    ELSE 1

\* record_admin_request
record_admin_request(table, request_key, admin_id, message_id) ==
    Put(table, request_key,
        Put(MessagesOf(table, request_key), admin_id, message_id))

\* a message with buttons: callback is the request key the handlers of its
\* buttons use
Prompt(request_key, admin_id, message_id, callback) ==
    [key |-> request_key, admin_id |-> admin_id, message_id |-> message_id,
     callback |-> callback]

\* the messages sent with buttons to admin_ids for request_key
Sent(request_key, admin_ids, callback) ==
    {Prompt(request_key, a, NextMessageId(admin_request_messages, request_key, a),
            callback) : a \in admin_ids}

\* the table after every message of `sent` is recorded; no two of them have
\* the same request key and admin id
RECURSIVE RecordedAll(_, _)
RecordedAll(table, sent) ==
    IF sent = {} THEN table
    ELSE LET m == CHOOSE x \in sent : TRUE IN
         RecordedAll(record_admin_request(table, m.key, m.admin_id, m.message_id),
                     sent \ {m})

\* the messages of `sent` are delivered and recorded
Deliver(sent) ==
    IF message_ids
    THEN /\ \A m \in sent : m.message_id <= MaxPrompts
         /\ admin_request_messages' = RecordedAll(admin_request_messages, sent)
         /\ buttons' = buttons \cup sent
    ELSE UNCHANGED promptVars

\* notify_admins on the prompt table: "for admin_id in admins"
NotifyRecorded(request_key) ==
    Deliver(Sent(request_key, {StrId(t) : t \in DOMAIN admins}, request_key))

\* update_admin_request_buttons: the messages still showing buttons after
\* every message recorded under request_key is edited
update_admin_request_buttons(request_key) ==
    {m \in buttons :
        ~(/\ m.key = request_key
          /\ m.admin_id \in DOMAIN MessagesOf(admin_request_messages, request_key)
          /\ m.message_id = admin_request_messages[request_key][m.admin_id])}

\* the handler calls update_admin_request_buttons on the branch that ends in
\* an approval or a rejection (done), and on no other
Relabel(request_key, done) ==
    /\ buttons' = IF done THEN update_admin_request_buttons(request_key) ELSE buttons
    /\ UNCHANGED admin_request_messages

----------------------------------------------------------------------------
(* The media server.  A call succeeds only if the server answers (ok) and  *)
(* the account it names is there; the server keeps account names unique    *)
(* ignoring case, and an account's id is its lower-case name.              *)

jellyfin_create_user(server, username, ok) ==
    ok /\ Lower(username) \notin DOMAIN server

AccountCreated(server, username) ==
    Put(server, Lower(username), [name |-> username, enabled |-> TRUE])

jellyfin_get_user_id(server, username, ok) ==
    IF ok /\ Lower(username) \in DOMAIN server THEN Lower(username) ELSE NoUser

set_user_enabled(server, username, ok) ==
    ok /\ Lower(username) \in DOMAIN server

AccountEnabled(server, username, enabled) ==
    [server EXCEPT ![Lower(username)].enabled = enabled]

check_username_availability(username, ok) ==
    ok /\ Lower(username) \notin DOMAIN jf

\* validate_username: 3 to 20 letters, digits, underscores or dashes
validate_username(text) == text \in Usernames

----------------------------------------------------------------------------
(* The state after startup: two linked admins and an imported, unlinked    *)
(* privileged account; InitSub has a registered regular user as well.      *)

AdminUser(name, tg) ==
    [username |-> name, telegram_id |-> tg, role |-> ROLE_ADMIN, is_admin |-> TRUE]

ImportedUser(name) ==
    [username |-> name, telegram_id |-> NoTelegramId, role |-> ROLE_PRIVILEGED,
     is_admin |-> FALSE]

\* a faulty variant: an approved registration gets permanent access
RegisteredAsPrivileged(name, tg) ==
    [username |-> name, telegram_id |-> tg, role |-> ROLE_PRIVILEGED,
     is_admin |-> FALSE]
RegisteredUser(name, tg) ==
    [username |-> name, telegram_id |-> tg, role |-> ROLE_REGULAR, is_admin |-> FALSE]

StartAdmins ==
    [u \in {AdminNames[i] : i \in 1 .. MaxAdmins} |->
        AdminUser(u, CHOOSE i \in 1 .. MaxAdmins : AdminNames[i] = u)]

StartUsers ==
    [u \in DOMAIN StartAdmins \cup {"bob"} |->
        IF u = "bob" THEN ImportedUser("bob") ELSE StartAdmins[u]]

\* the chat-id index, the username index and the admin table as the startup
\* rebuild derives them from the registry
BuiltTelegramMapping(us) ==
    [t \in {us[u].telegram_id : u \in DOMAIN us} \ {NoTelegramId} |->
        CHOOSE u \in DOMAIN us : us[u].telegram_id = t]

BuiltUsernameMapping(us) ==
    [n \in {Lower(us[u].username) : u \in DOMAIN us} |->
        CHOOSE u \in DOMAIN us : Lower(us[u].username) = n]

BuiltAdmins(us) ==
    [t \in {us[u].telegram_id : u \in {x \in DOMAIN us : us[x].is_admin}}
             \ {NoTelegramId} |->
        CHOOSE u \in DOMAIN us : us[u].is_admin /\ us[u].telegram_id = t]

InitWith(us, server) ==
    /\ users = us
    /\ telegram_to_userid = BuiltTelegramMapping(us)
    /\ username_to_uid = BuiltUsernameMapping(us)
    /\ admins = BuiltAdmins(us)
    /\ pending = EmptyDict
    /\ awaiting_username = {}
    /\ prompts = {}
    /\ subscriptions = EmptyDict
    /\ payment_requests = EmptyDict
    /\ pay_prompts = {}
    /\ jf = server
    /\ now = 0
    /\ mon_pc = "sleep"
    /\ expired_users = {}
    /\ admin_request_messages = EmptyDict
    /\ buttons = {}
    /\ approval_lock = FALSE
    /\ decision = NoDecision
    /\ last = Step("start", 0, NoUser, "ok")

ServerOf(us, enabledOf) ==
    [u \in DOMAIN us |-> [name |-> us[u].username, enabled |-> enabledOf[u]]]

Init ==
    /\ InitWith(StartUsers, ServerOf(StartUsers, [u \in DOMAIN StartUsers |-> TRUE]))
    /\ message_ids = FALSE

----------------------------------------------------------------------------
(* Requests of a user.  A message of a chat that is in awaiting_username   *)
(* is taken as the username (handle_update, registration flow); every      *)
(* command below is therefore handled only outside that flow.              *)

NewRequest(type, username, jellyfin_user_id, target_role) ==
    [type |-> type, username |-> username, requested_at |-> now,
     jellyfin_user_id |-> jellyfin_user_id, target_role |-> target_role]

\* the request is stored under the requester's chat id and every admin gets a
\* prompt with its buttons
CreateRequest(tg_id, request, kind) ==
    /\ pending' = Put(pending, tg_id, request)
    /\ prompts' = notify_admins(kind, tg_id)
    /\ NotifyRecorded(RequestKey(kind, tg_id))

\* handle_register
Register(tg_id) ==
    /\ tg_id \notin awaiting_username
    /\ IF get_user_by_telegram_id(tg_id) # NoUser
       THEN /\ last' = Step("register", tg_id, NoUser, "already_registered")
            /\ UNCHANGED awaiting_username
       ELSE IF tg_id \in DOMAIN pending
       THEN /\ last' = Step("register", tg_id, NoUser, "already_pending")
            /\ UNCHANGED awaiting_username
       ELSE /\ awaiting_username' = awaiting_username \cup {tg_id}
            /\ last' = Step("register", tg_id, NoUser, "awaiting")
    /\ UNCHANGED <<idVars, pending, prompts, promptVars, subVars, jf, now, monVars,
                   restVars>>

\* handle_update, username input during registration
UsernameInput(tg_id, text) ==
    /\ tg_id \in awaiting_username
    /\ IF ~validate_username(text)
       THEN /\ last' = Step("username", tg_id, NoUser, "invalid")
            /\ UNCHANGED <<pending, awaiting_username, prompts, promptVars>>
       ELSE \E ok \in BOOLEAN :
         IF ~check_username_availability(text, ok)
         THEN /\ last' = WithCalls(Step("username", tg_id, NoUser, "taken"),
                                   {"available"}, IF ok THEN {} ELSE {"available"})
              /\ UNCHANGED <<pending, awaiting_username, prompts, promptVars>>
         ELSE /\ awaiting_username' = awaiting_username \ {tg_id}
              /\ CreateRequest(tg_id, NewRequest("register", text, NoUser, ""),
                               "register")
              /\ last' = WithCalls(Step("username", tg_id, NoUser, "created"),
                                   {"available"}, {})
    /\ UNCHANGED <<idVars, subVars, jf, now, monVars, restVars>>

\* handle_linkme
Linkme(tg_id, username_to_link) ==
    /\ tg_id \notin awaiting_username
    /\ LET target_user_id == get_user_by_username(username_to_link) IN
       IF get_user_by_telegram_id(tg_id) # NoUser
       THEN /\ last' = Step("linkme", tg_id, NoUser, "already_linked")
            /\ UNCHANGED <<pending, prompts, promptVars>>
       ELSE IF tg_id \in DOMAIN pending
       THEN /\ last' = Step("linkme", tg_id, NoUser, "already_pending")
            /\ UNCHANGED <<pending, prompts, promptVars>>
       ELSE IF target_user_id = NoUser
       THEN /\ last' = Step("linkme", tg_id, NoUser, "not_found")
            /\ UNCHANGED <<pending, prompts, promptVars>>
       ELSE IF users[target_user_id].telegram_id # NoTelegramId
       THEN /\ last' = Step("linkme", tg_id, target_user_id, "target_linked")
            /\ UNCHANGED <<pending, prompts, promptVars>>
       ELSE /\ CreateRequest(tg_id,
                    NewRequest("link", username_to_link, target_user_id, ""), "link")
            /\ last' = Step("linkme", tg_id, target_user_id, "created")
    /\ UNCHANGED <<idVars, awaiting_username, subVars, jf, now, monVars,
                   restVars>>

\* handle_unlinkme: the check for a request already pending
unlink_already_pending(tg_id) ==
    tg_id \in DOMAIN pending /\ pending[tg_id].type = "unlink"

\* handle_unlinkme
Unlinkme(tg_id) ==
    /\ tg_id \notin awaiting_username
    /\ LET user_id == get_user_by_telegram_id(tg_id) IN
       IF user_id = NoUser
       THEN /\ last' = Step("unlinkme", tg_id, NoUser, "not_linked")
            /\ UNCHANGED <<pending, prompts, promptVars>>
       ELSE IF unlink_already_pending(tg_id)
       THEN /\ last' = Step("unlinkme", tg_id, user_id, "already_pending")
            /\ UNCHANGED <<pending, prompts, promptVars>>
       ELSE /\ CreateRequest(tg_id,
                    NewRequest("unlink", users[user_id].username, NoUser, ""), "unlink")
            /\ last' = Step("unlinkme", tg_id, user_id, "created")
    /\ UNCHANGED <<idVars, awaiting_username, subVars, jf, now, monVars,
                   restVars>>

\* handle_upgrade: the check for a request already pending
upgrade_already_pending(tg_id) ==
    tg_id \in DOMAIN pending /\ pending[tg_id].type = "role_upgrade"

\* handle_upgrade
Upgrade(tg_id) ==
    /\ tg_id \notin awaiting_username
    /\ LET user_id == get_user_by_telegram_id(tg_id) IN
       IF user_id = NoUser
       THEN /\ last' = Step("upgrade", tg_id, NoUser, "not_registered")
            /\ UNCHANGED <<pending, prompts, promptVars>>
       ELSE IF users[user_id].role = ROLE_ADMIN
       THEN /\ last' = Step("upgrade", tg_id, user_id, "already_admin")
            /\ UNCHANGED <<pending, prompts, promptVars>>
       ELSE IF upgrade_already_pending(tg_id)
       THEN /\ last' = Step("upgrade", tg_id, user_id, "already_pending")
            /\ UNCHANGED <<pending, prompts, promptVars>>
       ELSE /\ CreateRequest(tg_id,
                    NewRequest("role_upgrade", users[user_id].username, NoUser,
                               IF users[user_id].role = ROLE_REGULAR
                               THEN ROLE_PRIVILEGED ELSE ROLE_ADMIN),
                    "role_upgrade")
            /\ last' = Step("upgrade", tg_id, user_id, "created")
    /\ UNCHANGED <<idVars, awaiting_username, subVars, jf, now, monVars,
                   restVars>>

\* handle_resetpw: no PendingRequest is stored, the admins get the prompt
Resetpw(tg_id) ==
    /\ tg_id \notin awaiting_username
    /\ LET user_id == get_user_by_telegram_id(tg_id) IN
       IF user_id = NoUser
       THEN /\ last' = Step("resetpw", tg_id, NoUser, "not_registered")
            /\ UNCHANGED <<prompts, promptVars>>
       ELSE /\ prompts' = notify_admins("reset", tg_id)
            /\ NotifyRecorded(RequestKey("reset", tg_id))
            /\ last' = Step("resetpw", tg_id, user_id, "created")
    /\ UNCHANGED <<idVars, pending, awaiting_username, subVars, jf, now, monVars,
                   restVars>>

\* what /cancel leaves of awaiting_username, in the registration flow and as
\* a command
awaiting_after_cancel(tg_id) == awaiting_username \ {tg_id}

\* handle_update, /cancel
Cancel(tg_id) ==
    /\ awaiting_username' = awaiting_after_cancel(tg_id)
    /\ last' = Step("cancel", tg_id, NoUser, "cancelled")
    /\ UNCHANGED <<idVars, pending, prompts, promptVars, subVars, jf, now, monVars,
                   restVars>>

----------------------------------------------------------------------------
(* Decisions of an admin.  A button can be pressed by an admin who was     *)
(* sent a prompt carrying it; the press may be handled at any later time   *)
(* (two admins pressing at once, a relabel that failed, a redelivery).     *)

Pressed(tg_id, kind, uid) ==
    /\ tg_id \in DOMAIN admins
    /\ <<kind, uid>> \in prompts

\* approve: "if not jellyfin_create_user(...): return"
create_aborts(created) == ~created

\* a faulty variant: the approval goes on without the account id
id_lookup_ignored(jellyfin_id) == FALSE
\* approve: "if not jellyfin_id: return"
id_lookup_aborts(jellyfin_id) == jellyfin_id = NoUser

\* approve: "if not safe_file_save(USERS_FILE, ...): return", after the user
\* and both index entries are in memory
save_aborts(saved) == ~saved

\* a faulty variant: the approved request is left in the table
pending_not_removed(uid) == pending
\* approve: "pending.pop(uid, None)" after the user is saved
pending_after_approve(uid) == Pop(pending, uid)

\* approve, from the account creation on: the request p of chat uid, and the
\* outcome of each call and of the registry write
ApproveRequest(uid, p, createOk, idOk, disableOk, saveOk) ==
    LET created == jellyfin_create_user(jf, p.username, createOk)
        jf1 == AccountCreated(jf, p.username)
        jellyfin_id == jellyfin_get_user_id(jf1, p.username, idOk)
        disabled == set_user_enabled(jf1, p.username, disableOk)
        jf2 == IF disabled THEN AccountEnabled(jf1, p.username, FALSE) ELSE jf1
        create_failed == IF created THEN {} ELSE {"create"}
        get_id_failed == IF jellyfin_id = NoUser THEN {"get_id"} ELSE {}
        disable_failed == IF disabled THEN {} ELSE {"disable"}
    IN
    IF create_aborts(created)
    THEN /\ last' = WithCalls(Step("approve", uid, NoUser, "create_failed"),
                              {"create"}, create_failed)
         /\ UNCHANGED <<users, telegram_to_userid, username_to_uid, pending, jf>>
    ELSE IF id_lookup_aborts(jellyfin_id)
    THEN /\ jf' = jf1
         /\ last' = WithCalls(Step("approve", uid, NoUser, "id_failed"),
                              {"create", "get_id"}, create_failed \cup get_id_failed)
         /\ UNCHANGED <<users, telegram_to_userid, username_to_uid, pending>>
    ELSE /\ jf' = jf2
         /\ users' = Put(users, jellyfin_id, RegisteredUser(p.username, uid))
         /\ telegram_to_userid' =
                update_telegram_mapping(telegram_to_userid, uid, jellyfin_id)
         /\ username_to_uid' =
                update_username_mapping(username_to_uid, p.username, jellyfin_id)
         /\ pending' = IF save_aborts(saveOk) THEN pending
                       ELSE pending_after_approve(uid)
         /\ last' = WithCalls(Step("approve", uid, jellyfin_id,
                                   IF save_aborts(saveOk) THEN "save_failed"
                                   ELSE "approved"),
                              {"create", "get_id", "disable"},
                              create_failed \cup get_id_failed \cup disable_failed)

\* approve, after "p = pending.get(uid)" found the request p of chat uid
ApproveFetched(uid, p) ==
    IF get_user_by_telegram_id(uid) # NoUser
    THEN /\ pending' = Pop(pending, uid)
         /\ last' = Step("approve", uid, get_user_by_telegram_id(uid),
                         "already_approved")
         /\ UNCHANGED <<users, telegram_to_userid, username_to_uid, jf>>
    ELSE \E createOk, idOk, disableOk, saveOk \in BOOLEAN :
             ApproveRequest(uid, p, createOk, idOk, disableOk, saveOk)

\* handle_update, action == "approve"
Approve(tg_id, uid) ==
    /\ Pressed(tg_id, "register", uid)
    /\ IF uid \notin DOMAIN pending
       THEN /\ last' = Step("approve", uid, NoUser, "already_processed")
            /\ UNCHANGED <<users, telegram_to_userid, username_to_uid, pending, jf>>
       ELSE ApproveFetched(uid, pending[uid])
    /\ Relabel(RequestKey("register", uid), last'.outcome = "approved")
    /\ UNCHANGED <<admins, awaiting_username, prompts, subVars, now, monVars,
                   restVars>>

\* handle_update, action == "reject"
Reject(tg_id, uid) ==
    /\ Pressed(tg_id, "register", uid)
    /\ IF uid \in DOMAIN pending
       THEN /\ pending' = Pop(pending, uid)
            /\ last' = Step("reject", uid, NoUser, "rejected")
       ELSE /\ last' = Step("reject", uid, NoUser, "already_processed")
            /\ UNCHANGED pending
    /\ Relabel(RequestKey("register", uid), last'.outcome = "rejected")
    /\ UNCHANGED <<idVars, awaiting_username, prompts, subVars, jf, now, monVars,
                   restVars>>

\* jellyfin_reset_password: POST /Users/{id}/Password
jellyfin_reset_password(server, username, ok) ==
    ok /\ Lower(username) \in DOMAIN server

\* handle_update, action == "reset_ok"
ResetOk(tg_id, uid) ==
    /\ Pressed(tg_id, "reset", uid)
    /\ LET user_id == get_user_by_telegram_id(uid) IN
       IF user_id = NoUser
       THEN last' = Step("reset_ok", uid, NoUser, "user_not_found")
       ELSE \E ok \in BOOLEAN :
         IF jellyfin_reset_password(jf, users[user_id].username, ok)
         THEN last' = WithCalls(Step("reset_ok", uid, user_id, "approved"),
                                {"reset_password"}, {})
         ELSE last' = WithCalls(Step("reset_ok", uid, user_id, "reset_failed"),
                                {"reset_password"}, {"reset_password"})
    /\ Relabel(RequestKey("reset", uid), last'.outcome = "approved")
    /\ UNCHANGED <<idVars, reqVars, subVars, jf, now, monVars, restVars>>

\* handle_update, action == "reset_no"
ResetNo(tg_id, uid) ==
    /\ Pressed(tg_id, "reset", uid)
    /\ last' = Step("reset_no", uid, get_user_by_telegram_id(uid),
                    IF get_user_by_telegram_id(uid) # NoUser
                    THEN "rejected" ELSE "user_not_found")
    /\ Relabel(RequestKey("reset", uid), last'.outcome = "rejected")
    /\ UNCHANGED <<idVars, reqVars, subVars, jf, now, monVars, restVars>>

\* link_approve: the checks on the target account before it is linked
link_target_conflict(jellyfin_user_id) ==
    IF jellyfin_user_id \notin DOMAIN users THEN "target_missing"
    ELSE IF users[jellyfin_user_id].telegram_id # NoTelegramId THEN "target_linked"
    ELSE "none"

\* link_approve, after "p = pending[uid]" read the request p of chat uid
LinkFetched(uid, p) ==
    IF p.type # "link"
    THEN /\ last' = Step("link_approve", uid, NoUser, "not_a_link_request")
         /\ UNCHANGED <<users, telegram_to_userid, pending>>
    ELSE
      LET jellyfin_user_id == p.jellyfin_user_id IN
      IF link_target_conflict(jellyfin_user_id) # "none"
      THEN /\ pending' = Pop(pending, uid)
           /\ last' = Step("link_approve", uid, jellyfin_user_id,
                           link_target_conflict(jellyfin_user_id))
           /\ UNCHANGED <<users, telegram_to_userid>>
      ELSE /\ users' = [users EXCEPT ![jellyfin_user_id].telegram_id = uid]
           /\ telegram_to_userid' =
                  update_telegram_mapping(telegram_to_userid, uid, jellyfin_user_id)
           /\ pending' = Pop(pending, uid)
           /\ last' = Step("link_approve", uid, jellyfin_user_id, "approved")

\* handle_update, action == "link_approve"
LinkApprove(tg_id, uid) ==
    /\ Pressed(tg_id, "link", uid)
    /\ IF uid \notin DOMAIN pending
       THEN /\ last' = Step("link_approve", uid, NoUser, "already_processed")
            /\ UNCHANGED <<users, telegram_to_userid, pending>>
       ELSE LinkFetched(uid, pending[uid])
    /\ Relabel(RequestKey("link", uid), last'.outcome = "approved")
    /\ UNCHANGED <<username_to_uid, admins, awaiting_username, prompts, subVars, jf,
                   now, monVars, restVars>>

\* handle_update, action == "link_reject"
LinkReject(tg_id, uid) ==
    /\ Pressed(tg_id, "link", uid)
    /\ IF uid \in DOMAIN pending
       THEN /\ pending' = Pop(pending, uid)
            /\ last' = Step("link_reject", uid, NoUser, "rejected")
       ELSE /\ last' = Step("link_reject", uid, NoUser, "already_processed")
            /\ UNCHANGED pending
    /\ Relabel(RequestKey("link", uid), last'.outcome = "rejected")
    /\ UNCHANGED <<idVars, awaiting_username, prompts, subVars, jf, now, monVars,
                   restVars>>

\* handle_update, action == "unlink_approve"
UnlinkApprove(tg_id, uid) ==
    /\ Pressed(tg_id, "unlink", uid)
    /\ LET user_id == get_user_by_telegram_id(uid) IN
       IF user_id = NoUser
       THEN /\ pending' = Pop(pending, uid)
            /\ last' = Step("unlink_approve", uid, NoUser, "user_not_found")
            /\ UNCHANGED <<users, telegram_to_userid>>
       ELSE /\ users' = [users EXCEPT ![user_id].telegram_id = NoTelegramId]
            /\ telegram_to_userid' = remove_telegram_mapping(telegram_to_userid, uid)
            /\ pending' = Pop(pending, uid)
            /\ last' = Step("unlink_approve", uid, user_id, "approved")
    /\ Relabel(RequestKey("unlink", uid), last'.outcome = "approved")
    /\ UNCHANGED <<username_to_uid, admins, awaiting_username, prompts, subVars, jf,
                   now, monVars, restVars>>

\* handle_update, action == "unlink_reject"
UnlinkReject(tg_id, uid) ==
    /\ Pressed(tg_id, "unlink", uid)
    /\ IF uid \in DOMAIN pending
       THEN /\ pending' = Pop(pending, uid)
            /\ last' = Step("unlink_reject", uid, NoUser, "rejected")
       ELSE /\ last' = Step("unlink_reject", uid, NoUser, "already_processed")
            /\ UNCHANGED pending
    /\ Relabel(RequestKey("unlink", uid), last'.outcome = "rejected")
    /\ UNCHANGED <<idVars, awaiting_username, prompts, subVars, jf, now, monVars,
                   restVars>>

\* handle_update, action == "role_upgrade"
RoleUpgrade(tg_id, uid) ==
    /\ Pressed(tg_id, "role_upgrade", uid)
    /\ LET user_id == get_user_by_telegram_id(uid) IN
       IF uid \notin DOMAIN pending \/ pending[uid].type # "role_upgrade"
       THEN /\ last' = Step("role_upgrade", uid, NoUser, "already_processed")
            /\ UNCHANGED <<users, pending>>
       ELSE IF user_id = NoUser
       THEN /\ last' = Step("role_upgrade", uid, NoUser, "user_not_found")
            /\ UNCHANGED <<users, pending>>
       ELSE /\ users' = [users EXCEPT
                           ![user_id].role = pending[uid].target_role,
                           ![user_id].is_admin = (pending[uid].target_role = ROLE_ADMIN)]
            /\ pending' = Pop(pending, uid)
            /\ last' = Step("role_upgrade", uid, user_id, "approved")
    /\ Relabel(RequestKey("role_upgrade", uid), last'.outcome = "approved")
    /\ UNCHANGED <<telegram_to_userid, username_to_uid, admins, awaiting_username,
                   prompts, subVars, jf, now, monVars, restVars>>

\* handle_update, action == "role_upgrade_reject"
RoleUpgradeReject(tg_id, uid) ==
    /\ Pressed(tg_id, "role_upgrade", uid)
    /\ IF uid \in DOMAIN pending /\ pending[uid].type = "role_upgrade"
       THEN /\ pending' = Pop(pending, uid)
            /\ last' = Step("role_upgrade_reject", uid, NoUser, "rejected")
       ELSE /\ last' = Step("role_upgrade_reject", uid, NoUser,
                            "already_processed")
            /\ UNCHANGED pending
    /\ Relabel(RequestKey("role_upgrade", uid), last'.outcome = "rejected")
    /\ UNCHANGED <<idVars, awaiting_username, prompts, subVars, jf, now, monVars,
                   restVars>>

\* handle_pending: the buttons a listed request is shown with
listed_kind(type) ==
    IF type = "link" THEN "link" ELSE IF type = "unlink" THEN "unlink" ELSE "register"

\* handle_pending
PendingList(tg_id) ==
    /\ tg_id \in DOMAIN admins
    /\ tg_id \notin awaiting_username
    /\ DOMAIN pending # {}
    /\ prompts' = prompts \cup
           {<<listed_kind(pending[uid].type), uid>> : uid \in DOMAIN pending}
    /\ Deliver({Prompt(RequestKey(pending[uid].type, uid), IntId(tg_id),
                       NextMessageId(admin_request_messages,
                                     RequestKey(pending[uid].type, uid), IntId(tg_id)),
                       RequestKey(listed_kind(pending[uid].type), uid)) :
                    uid \in DOMAIN pending})
    /\ last' = Step("pending", 0, NoUser, "listed")
    /\ UNCHANGED <<idVars, pending, awaiting_username, subVars, jf, now, monVars,
                   restVars>>

----------------------------------------------------------------------------
(* Subscription status *)

\* a faulty variant: a window counts as running at the moment it expires
status_at_expiry(user_id) ==
    IF user_id \in DOMAIN users
          /\ users[user_id].role \in {ROLE_ADMIN, ROLE_PRIVILEGED}
    THEN <<TRUE, 0>>
    ELSE IF user_id \notin DOMAIN subscriptions THEN <<FALSE, 0>>
    ELSE IF subscriptions[user_id].expires_at >= now
    THEN <<TRUE, subscriptions[user_id].expires_at>>
    ELSE <<FALSE, 0>>
\* check_subscription_status: <<active, expires_at>>, expires_at 0 for None
check_subscription_status(user_id) ==
    IF user_id \in DOMAIN users
          /\ users[user_id].role \in {ROLE_ADMIN, ROLE_PRIVILEGED}
    THEN <<TRUE, 0>>
    ELSE IF user_id \notin DOMAIN subscriptions THEN <<FALSE, 0>>
    ELSE IF subscriptions[user_id].expires_at > now
    THEN <<TRUE, subscriptions[user_id].expires_at>>
    ELSE <<FALSE, 0>>

\* a faulty variant: the access check disables regular users whatever the
\* ledger holds
enforce_ignores_window(us, user_id) ==
    /\ user_id \in DOMAIN us
    /\ us[user_id].role = ROLE_REGULAR
\* enforce_regular_user_access reaches its disable call for this user
enforce_calls_disable(us, user_id) ==
    /\ user_id \in DOMAIN us
    /\ us[user_id].role = ROLE_REGULAR
    /\ ~(user_id \in DOMAIN subscriptions /\ subscriptions[user_id].expires_at > now)

----------------------------------------------------------------------------
(* Commands of an admin *)

AdminCommand(tg_id) == tg_id \in DOMAIN admins /\ tg_id \notin awaiting_username

\* handle_admin_link
AdminLink(tg_id, username_to_link, telegram_id_int) ==
    /\ AdminCommand(tg_id)
    /\ LET target_user_id == get_user_by_username(username_to_link) IN
       IF target_user_id = NoUser
       THEN /\ last' = Step("admin_link", telegram_id_int, NoUser, "not_found")
            /\ UNCHANGED <<users, telegram_to_userid>>
       ELSE IF users[target_user_id].telegram_id # NoTelegramId
       THEN /\ last' = Step("admin_link", telegram_id_int, target_user_id,
                            "target_linked")
            /\ UNCHANGED <<users, telegram_to_userid>>
       ELSE IF get_user_by_telegram_id(telegram_id_int) # NoUser
       THEN /\ last' = Step("admin_link", telegram_id_int, target_user_id,
                            "chat_in_use")
            /\ UNCHANGED <<users, telegram_to_userid>>
       ELSE /\ users' = [users EXCEPT ![target_user_id].telegram_id = telegram_id_int]
            /\ telegram_to_userid' = update_telegram_mapping(
                   telegram_to_userid, telegram_id_int, target_user_id)
            /\ last' = Step("admin_link", telegram_id_int, target_user_id,
                            "linked")
    /\ UNCHANGED <<username_to_uid, admins, reqVars, subVars, jf, now, monVars,
                   promptVars, restVars>>

\* handle_admin_unlink
AdminUnlink(tg_id, username_to_unlink) ==
    /\ AdminCommand(tg_id)
    /\ LET target_user_id == get_user_by_username(username_to_unlink) IN
       IF target_user_id = NoUser
       THEN /\ last' = Step("admin_unlink", 0, NoUser, "not_found")
            /\ UNCHANGED <<users, telegram_to_userid>>
       ELSE IF users[target_user_id].telegram_id = NoTelegramId
       THEN /\ last' = Step("admin_unlink", 0, target_user_id, "not_linked")
            /\ UNCHANGED <<users, telegram_to_userid>>
       ELSE /\ users' = [users EXCEPT ![target_user_id].telegram_id = NoTelegramId]
            /\ telegram_to_userid' = remove_telegram_mapping(
                   telegram_to_userid, users[target_user_id].telegram_id)
            /\ last' = Step("admin_unlink", users[target_user_id].telegram_id,
                            target_user_id, "unlinked")
    /\ UNCHANGED <<username_to_uid, admins, reqVars, subVars, jf, now, monVars,
                   promptVars, restVars>>

\* a faulty variant: a downgrade never runs the access check
downgrade_never_enforces(target_role) == FALSE
\* handle_admin_downgrade: "if target_role == ROLE_REGULAR:
\* enforce_regular_user_access(target_uid, ...)"
downgrade_enforces(target_role) == target_role = ROLE_REGULAR

\* handle_admin_downgrade
AdminDowngrade(tg_id, username, target_role, ok) ==
    /\ AdminCommand(tg_id)
    /\ target_role \in {ROLE_REGULAR, ROLE_PRIVILEGED}
    /\ LET target_uid == get_user_by_username(username)
           us == [users EXCEPT ![target_uid].role = target_role,
                               ![target_uid].is_admin = (target_role = ROLE_ADMIN)]
           disabling == /\ downgrade_enforces(target_role)
                        /\ enforce_calls_disable(us, target_uid)
           disabled == disabling /\ set_user_enabled(jf, username, ok)
       IN
       IF target_uid = NoUser
       THEN /\ last' = Step("downgrade", 0, NoUser, "not_found")
            /\ UNCHANGED <<users, jf>>
       ELSE IF users[target_uid].role = target_role
       THEN /\ last' = Step("downgrade", 0, target_uid, "already")
            /\ UNCHANGED <<users, jf>>
       ELSE /\ users' = us
            /\ jf' = IF disabled THEN AccountEnabled(jf, username, FALSE) ELSE jf
            /\ last' = WithCalls(Step("downgrade", 0, target_uid, target_role),
                                 IF disabling THEN {"disable"} ELSE {},
                                 IF disabling /\ ~disabled THEN {"disable"} ELSE {})
    /\ UNCHANGED <<telegram_to_userid, username_to_uid, admins, reqVars, subVars, now,
                   monVars, promptVars, restVars>>

\* handle_admin_upgrade, from the user menu
AdminUpgrade(tg_id, user_id) ==
    /\ AdminCommand(tg_id)
    /\ user_id \in DOMAIN users
    /\ IF users[user_id].role = ROLE_ADMIN
       THEN /\ last' = Step("admin_upgrade", 0, user_id, "already_admin")
            /\ UNCHANGED users
       ELSE LET target_role == IF users[user_id].role = ROLE_REGULAR
                               THEN ROLE_PRIVILEGED ELSE ROLE_ADMIN IN
            /\ users' = [users EXCEPT ![user_id].role = target_role,
                                      ![user_id].is_admin = (target_role = ROLE_ADMIN)]
            /\ last' = Step("admin_upgrade", 0, user_id, target_role)
    /\ UNCHANGED <<telegram_to_userid, username_to_uid, admins, reqVars, subVars, jf,
                   now, monVars, promptVars, restVars>>

\* jellyfin_delete_user: DELETE /Users/{id}
jellyfin_delete_user(server, user_id, ok) == ok /\ user_id \in DOMAIN server

\* handle_admin_delete, from the user menu
AdminDelete(tg_id, user_id, ok) ==
    /\ AdminCommand(tg_id)
    /\ user_id \in DOMAIN users
    /\ IF ~jellyfin_delete_user(jf, user_id, ok)
       THEN /\ last' = WithCalls(Step("admin_delete", 0, user_id, "delete_failed"),
                                 {"delete"}, {"delete"})
            /\ UNCHANGED <<idVars, subscriptions, jf>>
       ELSE /\ jf' = Pop(jf, user_id)
            /\ users' = Pop(users, user_id)
            /\ subscriptions' = Pop(subscriptions, user_id)
            /\ username_to_uid' =
                   remove_username_mapping(username_to_uid, users[user_id].username)
            /\ telegram_to_userid' =
                   remove_telegram_mapping(telegram_to_userid, users[user_id].telegram_id)
            /\ admins' = IF users[user_id].telegram_id # NoTelegramId
                         THEN Pop(admins, users[user_id].telegram_id) ELSE admins
            /\ last' = WithCalls(Step("admin_delete", users[user_id].telegram_id,
                                      user_id, "deleted"), {"delete"}, {})
    /\ UNCHANGED <<reqVars, payment_requests, pay_prompts, now, monVars,
                   promptVars, restVars>>

----------------------------------------------------------------------------
(* The identity and request workflows *)

Next ==
    \/ \E t \in Requesters : Register(t)
    \/ \E t \in Requesters, n \in RegNames \cup {"bob", "x"} : UsernameInput(t, n)
    \/ \E t \in Requesters, n \in Managed : Linkme(t, n)
    \/ \E t \in Requesters : Unlinkme(t)
    \/ \E t \in Requesters : Upgrade(t)
    \/ \E t \in Requesters : Resetpw(t)
    \/ \E t \in Requesters : Cancel(t)
    \/ \E a \in TgIds, t \in Requesters : Approve(a, t)
    \/ \E a \in TgIds, t \in Requesters : Reject(a, t)
    \/ \E a \in TgIds, t \in Requesters : ResetOk(a, t)
    \/ \E a \in TgIds, t \in Requesters : ResetNo(a, t)
    \/ \E a \in TgIds, t \in Requesters : LinkApprove(a, t)
    \/ \E a \in TgIds, t \in Requesters : LinkReject(a, t)
    \/ \E a \in TgIds, t \in Requesters : UnlinkApprove(a, t)
    \/ \E a \in TgIds, t \in Requesters : UnlinkReject(a, t)
    \/ \E a \in TgIds, t \in Requesters : RoleUpgrade(a, t)
    \/ \E a \in TgIds, t \in Requesters : RoleUpgradeReject(a, t)
    \/ \E a \in TgIds : PendingList(a)
    \/ \E a \in TgIds, t \in Requesters, n \in Managed : AdminLink(a, n, t)
    \/ \E a \in TgIds, n \in Managed : AdminUnlink(a, n)
    \/ \E a \in TgIds, u \in RegNames, ok \in BOOLEAN : AdminDelete(a, u, ok)
    \/ \E a \in TgIds, u \in RegNames : AdminUpgrade(a, u)
    \/ \E a \in TgIds, n \in RegNames, r \in {ROLE_REGULAR, ROLE_PRIVILEGED},
          ok \in BOOLEAN : AdminDowngrade(a, n, r, ok)

Spec == Init /\ [][Next]_vars

----------------------------------------------------------------------------
(* Subscriptions and payments *)

\* the expiry an entry is extended from: its own while still in the future,
\* otherwise the current time
running_expiry(user_id) ==
    IF user_id \in DOMAIN subscriptions /\ subscriptions[user_id].expires_at > now
    THEN subscriptions[user_id].expires_at
    ELSE now

\* a faulty variant: every activation starts from the current time
activate_from_now(user_id, duration_days) ==
    now + duration_days * SECONDS_PER_DAY
\* activate_subscription: new_expiry for a regular user
activate_subscription(user_id, duration_days) ==
    running_expiry(user_id) + duration_days * SECONDS_PER_DAY

\* handle_subextend: new_expiry
subextend_expiry(target_uid, days) ==
    running_expiry(target_uid) + days * SECONDS_PER_DAY

\* the expiry of the entry found by an activation, 0 without an entry
ExpiryOf(user_id) ==
    IF user_id \in DOMAIN subscriptions THEN subscriptions[user_id].expires_at ELSE 0

\* the history record of an activation of `days` days
Activated(s, request_id, user_id, days) ==
    [s EXCEPT !.req = request_id, !.days = days, !.prev = ExpiryOf(user_id)]

\* handle_update, "plan:" button: the request id is "<tg_id>_<time>"
PlanSelect(tg_id, plan_id) ==
    /\ plan_id \in DOMAIN subscription_plans
    /\ LET user_id == get_user_by_telegram_id(tg_id)
           request_id == <<tg_id, now>>
       IN
       IF user_id = NoUser
       THEN /\ last' = Step("plan", tg_id, NoUser, "not_registered")
            /\ UNCHANGED payment_requests
       ELSE /\ \/ request_id \in DOMAIN payment_requests
               \/ Cardinality(DOMAIN payment_requests) < MaxPayments
            /\ payment_requests' = Put(payment_requests, request_id,
                   [user_id |-> user_id, telegram_id |-> tg_id, plan_id |-> plan_id,
                    status |-> "pending"])
            /\ last' = [Step("plan", tg_id, user_id, "created") EXCEPT
                           !.req = request_id]
    /\ UNCHANGED <<idVars, reqVars, subscriptions, pay_prompts, jf, now, monVars,
                   promptVars, restVars>>

\* the first payment request of a chat that is still pending (the table keeps
\* insertion order, which is the order of the request times)
pending_payment(tg_id) ==
    LET mine == {r \in DOMAIN payment_requests :
                    /\ payment_requests[r].telegram_id = tg_id
                    /\ payment_requests[r].status = "pending"}
    IN IF mine = {} THEN NoReq
       ELSE CHOOSE r \in mine : \A q \in mine : r[2] <= q[2]

\* handle_update, photo of a linked user who is not an admin
PaymentPhoto(tg_id) ==
    /\ tg_id \notin DOMAIN admins
    /\ tg_id \in DOMAIN telegram_to_userid
    /\ IF telegram_to_userid[tg_id] \notin DOMAIN users
       THEN /\ last' = Step("photo", tg_id, NoUser, "user_not_found")
            /\ UNCHANGED <<pay_prompts, promptVars>>
       ELSE IF pending_payment(tg_id) = NoReq
       THEN /\ last' = Step("photo", tg_id, telegram_to_userid[tg_id], "photo")
            /\ UNCHANGED <<pay_prompts, promptVars>>
       ELSE /\ pay_prompts' = IF DOMAIN admins # {}
                              THEN pay_prompts \cup {pending_payment(tg_id)}
                              ELSE pay_prompts
            /\ NotifyRecorded(PaymentKey(pending_payment(tg_id)))
            /\ last' = [Step("photo", tg_id, telegram_to_userid[tg_id], "screenshot")
                           EXCEPT !.req = pending_payment(tg_id)]
    /\ UNCHANGED <<idVars, reqVars, subscriptions, payment_requests, jf, now, monVars,
                   restVars>>

PayPressed(tg_id, request_id) ==
    /\ tg_id \in DOMAIN admins
    /\ request_id \in pay_prompts

\* the status a payment request had when the handler started
StatusOf(request_id) ==
    IF request_id \in DOMAIN payment_requests
    THEN payment_requests[request_id].status ELSE "none"

PayStep(op, request_id, uid, outcome) ==
    [Step(op, request_id[1], uid, outcome) EXCEPT
        !.req = request_id, !.before = StatusOf(request_id)]

\* handle_update, action == "pay_approve"
PayApprove(tg_id, request_id) ==
    /\ PayPressed(tg_id, request_id)
    /\ IF request_id \notin DOMAIN payment_requests
       THEN /\ last' = PayStep("pay_approve", request_id, NoUser, "not_found")
            /\ UNCHANGED <<subscriptions, payment_requests, jf>>
       ELSE
         LET user_id == payment_requests[request_id].user_id
             days == subscription_plans[payment_requests[request_id].plan_id]
         IN
         IF user_id \notin DOMAIN users
         THEN /\ last' = PayStep("pay_approve", request_id, user_id, "user_not_found")
              /\ UNCHANGED <<subscriptions, payment_requests, jf>>
         ELSE IF users[user_id].role \in {ROLE_ADMIN, ROLE_PRIVILEGED}
         THEN \* activate_subscription returns None and formatting it raises
              /\ last' = PayStep("pay_approve", request_id, user_id, "error")
              /\ UNCHANGED <<subscriptions, payment_requests, jf>>
         ELSE \E ok \in BOOLEAN :
              LET enabled == set_user_enabled(jf, users[user_id].username, ok) IN
              /\ activate_subscription(user_id, days) <= MaxExpiry
              /\ subscriptions' = Put(subscriptions, user_id,
                     [expires_at |-> activate_subscription(user_id, days)])
              /\ jf' = IF enabled
                       THEN AccountEnabled(jf, users[user_id].username, TRUE) ELSE jf
              /\ payment_requests' =
                     [payment_requests EXCEPT ![request_id].status = "approved"]
              /\ last' = WithCalls(
                     Activated(PayStep("pay_approve", request_id, user_id, "approved"),
                               request_id, user_id, days),
                     {"enable"}, IF enabled THEN {} ELSE {"enable"})
    /\ Relabel(PaymentKey(request_id), last'.outcome = "approved")
    /\ UNCHANGED <<idVars, reqVars, pay_prompts, now, monVars, restVars>>

\* handle_update, action == "pay_reject"
PayReject(tg_id, request_id) ==
    /\ PayPressed(tg_id, request_id)
    /\ IF request_id \notin DOMAIN payment_requests
       THEN /\ last' = PayStep("pay_reject", request_id, NoUser, "not_found")
            /\ UNCHANGED payment_requests
       ELSE /\ payment_requests' =
                   [payment_requests EXCEPT ![request_id].status = "rejected"]
            /\ last' = PayStep("pay_reject", request_id,
                               payment_requests[request_id].user_id, "rejected")
    /\ Relabel(PaymentKey(request_id), last'.outcome = "rejected")
    /\ UNCHANGED <<idVars, reqVars, subscriptions, pay_prompts, jf, now, monVars,
                   restVars>>

\* handle_subextend
SubExtend(tg_id, username, days) ==
    /\ AdminCommand(tg_id)
    /\ days > 0
    /\ LET target_uid == get_user_by_username(username) IN
       IF target_uid = NoUser
       THEN /\ last' = Step("subextend", 0, NoUser, "not_found")
            /\ UNCHANGED subscriptions
       ELSE IF users[target_uid].role \in {ROLE_ADMIN, ROLE_PRIVILEGED}
       THEN /\ last' = Step("subextend", 0, target_uid, "permanent_access")
            /\ UNCHANGED subscriptions
       ELSE /\ subextend_expiry(target_uid, days) <= MaxExpiry
            /\ subscriptions' = Put(subscriptions, target_uid,
                   [expires_at |-> subextend_expiry(target_uid, days)])
            /\ last' = Activated(Step("subextend", 0, target_uid, "extended"),
                                 NoReq, target_uid, days)
    /\ UNCHANGED <<idVars, reqVars, payment_requests, pay_prompts, jf, now, monVars,
                   promptVars, restVars>>

\* a faulty variant: the entry keeps the expiry it had
subend_expiry_kept(target_uid) == subscriptions[target_uid].expires_at
\* handle_subend: "subscriptions[target_uid]["expires_at"] = time.time() - 1"
subend_expiry(target_uid) == now - 1

\* handle_subend
SubEnd(tg_id, username) ==
    /\ AdminCommand(tg_id)
    /\ LET target_uid == get_user_by_username(username) IN
       IF target_uid = NoUser
       THEN /\ last' = Step("subend", 0, NoUser, "not_found")
            /\ UNCHANGED subscriptions
       ELSE IF users[target_uid].role \in {ROLE_ADMIN, ROLE_PRIVILEGED}
       THEN /\ last' = Step("subend", 0, target_uid, "permanent_access")
            /\ UNCHANGED subscriptions
       ELSE IF target_uid \notin DOMAIN subscriptions
       THEN /\ last' = Step("subend", 0, target_uid, "no_subscription")
            /\ UNCHANGED subscriptions
       ELSE /\ subscriptions' = [subscriptions EXCEPT
                                    ![target_uid].expires_at = subend_expiry(target_uid)]
            /\ last' = [Step("subend", 0, target_uid, "ended") EXCEPT
                           !.prev = ExpiryOf(target_uid)]
    /\ UNCHANGED <<idVars, reqVars, payment_requests, pay_prompts, jf, now, monVars,
                   promptVars, restVars>>

----------------------------------------------------------------------------
(* subscription_monitor_loop: one pass is the snapshot of the expired        *)
(* entries, one step per snapshot entry, and the access check of every user. *)

\* a faulty variant: an entry is taken only once its expiry lies in the past
expired_before_now ==
    {user_id \in DOMAIN subscriptions : subscriptions[user_id].expires_at < now}
\* the entries the pass will process: "if sub['expires_at'] <= current_time"
expired_entries ==
    {user_id \in DOMAIN subscriptions : subscriptions[user_id].expires_at <= now}

MonSnapshot ==
    /\ mon_pc = "sleep"
    /\ expired_users' = expired_entries
    /\ mon_pc' = "expire"
    /\ last' = Step("mon_snapshot", 0, NoUser, "snapshot")
    /\ UNCHANGED <<idVars, reqVars, subVars, jf, now, promptVars, restVars>>

\* a faulty variant: the entry is dropped although the disable call failed
subscriptions_entry_dropped(user_id) == Pop(subscriptions, user_id)
\* what the pass leaves of the ledger when the disable call for user_id failed
subscriptions_after_failed_disable(user_id) == subscriptions

\* the body of "for user_id in expired_users"
MonExpire(user_id) ==
    /\ mon_pc = "expire"
    /\ user_id \in expired_users
    /\ expired_users' = expired_users \ {user_id}
    /\ IF user_id \in DOMAIN users
       THEN \E ok \in BOOLEAN :
         LET username == users[user_id].username
             success == set_user_enabled(jf, username, ok)
         IN
         IF ~success
         THEN /\ subscriptions' = subscriptions_after_failed_disable(user_id)
              /\ last' = WithCalls(Step("mon_expire", 0, user_id, "disable_failed"),
                                   {"disable"}, {"disable"})
              /\ UNCHANGED jf
         ELSE /\ jf' = AccountEnabled(jf, username, FALSE)
              /\ subscriptions' = Pop(subscriptions, user_id)
              /\ last' = [WithCalls(Step("mon_expire", 0, user_id, "expired"),
                                    {"disable"}, {})
                          EXCEPT !.notified = {users[user_id].telegram_id}
                                                \ {NoTelegramId},
                                 !.prev = ExpiryOf(user_id)]
       ELSE /\ subscriptions' = Pop(subscriptions, user_id)
            /\ last' = Step("mon_expire", 0, user_id, "orphaned")
            /\ UNCHANGED jf
    /\ UNCHANGED <<idVars, reqVars, payment_requests, pay_prompts, now, mon_pc,
                   promptVars, restVars>>

\* "for user_id in list(users.keys()): enforce_regular_user_access(user_id)":
\* the users in `disabled` are those whose disable call succeeds
MonEnforce(disabled) ==
    /\ mon_pc = "expire"
    /\ expired_users = {}
    /\ LET targets == {u \in DOMAIN users : enforce_calls_disable(users, u)} IN
       /\ disabled \subseteq {u \in targets : Lower(users[u].username) \in DOMAIN jf}
       /\ jf' = [a \in DOMAIN jf |->
                   IF \E u \in disabled : Lower(users[u].username) = a
                   THEN [jf[a] EXCEPT !.enabled = FALSE] ELSE jf[a]]
       /\ last' = WithCalls(Step("mon_enforce", 0, NoUser, "checked"),
                            IF targets = {} THEN {} ELSE {"disable"},
                            IF targets \ disabled = {} THEN {} ELSE {"disable"})
    /\ mon_pc' = "sleep"
    /\ UNCHANGED <<idVars, reqVars, subVars, now, expired_users,
                   promptVars, restVars>>

\* time.time() advances
Tick(seconds) ==
    /\ seconds > 0
    /\ now + seconds <= MaxDays * SECONDS_PER_DAY
    /\ now' = now + seconds
    /\ last' = Step("tick", 0, NoUser, "ok")
    /\ UNCHANGED <<idVars, reqVars, subVars, jf, monVars, promptVars, restVars>>

----------------------------------------------------------------------------
(* The subscription lifecycle: the state after startup has a registered     *)
(* regular user, linked to the requester's chat, whose account is disabled. *)

SubUsers ==
    [u \in DOMAIN StartAdmins \cup RegNames |->
        IF u \in RegNames THEN RegisteredUser(u, MaxAdmins + 1) ELSE StartAdmins[u]]

InitSub ==
    /\ InitWith(SubUsers,
                ServerOf(SubUsers, [u \in DOMAIN SubUsers |-> u \notin RegNames]))
    /\ message_ids = FALSE

NextSub ==
    \/ \E s \in {SECONDS_PER_DAY} : Tick(s)
    \/ \E t \in Requesters, p \in DOMAIN subscription_plans : PlanSelect(t, p)
    \/ \E t \in Requesters : PaymentPhoto(t)
    \/ \E a \in TgIds, r \in RequestIds : PayApprove(a, r)
    \/ \E a \in TgIds, r \in RequestIds : PayReject(a, r)
    \/ \E a \in TgIds, n \in RegNames, d \in Days : SubExtend(a, n, d)
    \/ \E a \in TgIds, n \in RegNames : SubEnd(a, n)
    \/ \E a \in TgIds, u \in RegNames, ok \in BOOLEAN : AdminDelete(a, u, ok)
    \/ MonSnapshot
    \/ \E u \in RegNames : MonExpire(u)
    \/ \E d \in SUBSET RegNames : MonEnforce(d)

SpecSub == InitSub /\ [][NextSub]_vars

\* an expiry step of the monitor whose disable call did not fail
MonExpireDone(user_id) ==
    MonExpire(user_id) /\ last'.outcome # "disable_failed"

\* The monitor thread keeps running: "while not shutdown_flag" takes the next
\* step of its pass after every sleep, and an exception in a pass is caught
\* and followed by the next pass.  The media server does not fail a user's
\* disable call forever.
MonitorRuns ==
    /\ WF_vars(MonSnapshot)
    /\ \A u \in RegNames : WF_vars(MonExpire(u))
    /\ WF_vars(\E d \in SUBSET RegNames : MonEnforce(d))
    /\ \A u \in RegNames : SF_vars(MonExpireDone(u))

SpecSubFair == SpecSub /\ MonitorRuns

----------------------------------------------------------------------------
(* Usernames: two requesters ask for names that differ in case only, are    *)
(* approved, and users are deleted.                                         *)

\* the chats that register
NameRequesters == {MaxAdmins + 1, MaxAdmins + 2}
\* the texts sent as a username: free, free in another case, taken in another
\* case, and not a username
NameTexts == {"ann", "Ann", "Bob", "x"}

NextNames ==
    \/ \E t \in NameRequesters : Register(t)
    \/ \E t \in NameRequesters, n \in NameTexts : UsernameInput(t, n)
    \/ \E a \in TgIds, t \in NameRequesters : Approve(a, t)
    \/ \E a \in TgIds, t \in NameRequesters : Reject(a, t)
    \/ \E a \in TgIds, u \in RegNames, ok \in BOOLEAN : AdminDelete(a, u, ok)

SpecNames == Init /\ [][NextNames]_vars

----------------------------------------------------------------------------
(* Startup: the registry is loaded, normalised, the indexes and the admin   *)
(* table are rebuilt, and the process exits if no admin results.  run(),    *)
(* which starts the monitor thread and the event loop, comes after it.      *)

\* the registries users.json may hold: two linked admins; the import from the
\* media server, whose admin has no chat id yet; users none of whom is an
\* admin; a record whose role is admin without the admin flag; and a record
\* with the admin flag whose role is regular
LoadedRegistries ==
    {StartUsers,
     [u \in {AdminNames[1], "bob"} |->
         IF u = "bob" THEN ImportedUser("bob") ELSE AdminUser(u, NoTelegramId)],
     [u \in {"bob", "ann"} |->
         IF u = "bob" THEN ImportedUser("bob") ELSE RegisteredUser(u, MaxAdmins + 1)],
     [u \in {AdminNames[1], "bob"} |->
         IF u = "bob" THEN ImportedUser("bob")
         ELSE [AdminUser(u, 1) EXCEPT !.is_admin = FALSE]],
     [u \in DOMAIN StartAdmins \cup {"ann"} |->
         IF u = "ann"
         THEN [RegisteredUser("ann", MaxAdmins + 1) EXCEPT !.is_admin = TRUE]
         ELSE StartAdmins[u]]}

\* a faulty variant: the registry is used as it was loaded
registry_as_loaded(us) == us
\* normalize_user_data: role and admin flag are made to agree
normalize_user_data(us) ==
    [u \in DOMAIN us |->
        IF us[u].is_admin /\ us[u].role # ROLE_ADMIN
        THEN [us[u] EXCEPT !.role = ROLE_ADMIN]
        ELSE IF ~us[u].is_admin /\ us[u].role = ROLE_ADMIN
        THEN [us[u] EXCEPT !.is_admin = TRUE]
        ELSE us[u]]

\* startup: "valid_telegram_ids", the chat ids set on some user
valid_telegram_ids(us) == {us[u].telegram_id : u \in DOMAIN us} \ {NoTelegramId}

\* a faulty variant: no entry of the loaded index is removed
stale_mappings_kept(m, us) == {}
\* startup: "stale_mappings", the keys of the loaded index that are removed
stale_mappings(m, us) == DOMAIN m \ valid_telegram_ids(us)

\* startup: the loop "for user_id, user_data in users.items()" over the users
\* `todo`, taken in the order of the registry, on the chat-id index m: an entry
\* is written unless it is there already
RECURSIVE verified_telegram_mapping(_, _, _)
verified_telegram_mapping(m, us, todo) ==
    IF todo = {} THEN m
    ELSE LET u == CHOOSE x \in todo : TRUE
             t == us[u].telegram_id
             wrong == t \notin DOMAIN m \/ m[t] # u
         IN verified_telegram_mapping(
                IF t # NoTelegramId /\ wrong THEN Put(m, t, u) ELSE m, us, todo \ {u})

\* startup: the chat-id index after the stale entries are removed from the
\* loaded one and the loop has run
rebuilt_telegram_mapping(m, us) ==
    verified_telegram_mapping([t \in DOMAIN m \ stale_mappings(m, us) |-> m[t]],
                              us, DOMAIN us)

\* startup: the same loop on the username index m, which starts empty
RECURSIVE rebuilt_username_mapping(_, _, _)
rebuilt_username_mapping(m, us, todo) ==
    IF todo = {} THEN m
    ELSE LET u == CHOOSE x \in todo : TRUE IN
         rebuilt_username_mapping(update_username_mapping(m, us[u].username, u),
                                  us, todo \ {u})

\* the state when the data files are loaded, users.json holding us and
\* telegram_mapping.json holding m: the monitor thread does not exist
InitLoaded(us, m) ==
    /\ users = us
    /\ telegram_to_userid = m
    /\ username_to_uid = EmptyDict
    /\ admins = EmptyDict
    /\ pending = EmptyDict
    /\ awaiting_username = {}
    /\ prompts = {}
    /\ subscriptions = EmptyDict
    /\ payment_requests = EmptyDict
    /\ pay_prompts = {}
    /\ jf = ServerOf(us, [u \in DOMAIN us |-> TRUE])
    /\ now = 0
    /\ mon_pc = "off"
    /\ expired_users = {}
    /\ message_ids = FALSE
    /\ admin_request_messages = EmptyDict
    /\ buttons = {}
    /\ approval_lock = FALSE
    /\ decision = NoDecision
    /\ last = Step("load", 0, NoUser, "ok")

\* the first start: no chat-id index has been written yet
InitBoot == \E us \in LoadedRegistries : InitLoaded(us, EmptyDict)

\* a faulty variant: the process goes on without an admin
startup_never_refused(adm) == FALSE
\* "if len(admins) == 0: ... sys.exit(1)"
startup_refused(adm) == DOMAIN adm = {}

\* the module-level startup code followed by the call of run()
Startup ==
    /\ mon_pc = "off"
    /\ LET us == normalize_user_data(users) IN
       /\ users' = us
       /\ telegram_to_userid' = rebuilt_telegram_mapping(telegram_to_userid, us)
       /\ username_to_uid' = rebuilt_username_mapping(EmptyDict, us, DOMAIN us)
       /\ admins' = BuiltAdmins(us)
       /\ IF startup_refused(BuiltAdmins(us))
          THEN /\ mon_pc' = "stopped"
               /\ last' = [Step("start", 0, NoUser, "exit") EXCEPT
                              !.stale = stale_mappings(telegram_to_userid, us)]
          ELSE /\ mon_pc' = "sleep"
               /\ last' = [Step("start", 0, NoUser, "ok") EXCEPT
                              !.stale = stale_mappings(telegram_to_userid, us)]
    /\ UNCHANGED <<reqVars, subVars, jf, now, expired_users,
                   promptVars, restVars>>

\* run() has started the monitor thread and polls for updates
Serving == mon_pc \in {"sleep", "expire"}

NextBoot ==
    \/ Startup
    \/ Serving /\ \E s \in {SECONDS_PER_DAY} : Tick(s)
    \/ Serving /\ \E t \in Requesters : Register(t)
    \/ Serving /\ \E t \in Requesters, n \in RegNames \cup {"Bob"} : UsernameInput(t, n)
    \/ Serving /\ \E t \in Requesters : Cancel(t)
    \/ Serving /\ \E a \in TgIds, t \in Requesters : Approve(a, t)
    \/ Serving /\ \E a \in TgIds, t \in Requesters : Reject(a, t)
    \/ Serving /\ MonSnapshot
    \/ Serving /\ \E d \in SUBSET RegNames : MonEnforce(d)

SpecBoot == InitBoot /\ [][NextBoot]_vars

----------------------------------------------------------------------------
(* The operations of the subscription ledger, called with any user id and   *)
(* any number of days: check_subscription_status and activate_subscription. *)

\* ids the ledger operations are called with: an admin, the registered
\* regular user, and an id no user has
LedgerIds == {AdminNames[1]} \cup RegNames \cup {"ghost"}
\* the days an activation is called with
ActivateDays == {0 - 1, 0, 1}

\* a call of check_subscription_status: outcome and prev hold the result
CheckStatus(user_id) ==
    /\ last' = [Step("status", 0, user_id,
                     IF check_subscription_status(user_id)[1]
                     THEN "active" ELSE "inactive")
                EXCEPT !.prev = check_subscription_status(user_id)[2]]
    /\ UNCHANGED <<idVars, reqVars, subVars, jf, now, monVars,
                   promptVars, restVars>>

\* a faulty variant: zero days are accepted
negative_duration(duration_days) == duration_days < 0
\* activate_subscription: "if duration_days <= 0: raise ValueError"
invalid_duration(duration_days) == duration_days <= 0

\* a faulty variant: only admins are exempt
admin_only_exempt(role) == role = ROLE_ADMIN
\* activate_subscription: "if role in [ROLE_ADMIN, ROLE_PRIVILEGED]: return None"
permanent_access(role) == role \in {ROLE_ADMIN, ROLE_PRIVILEGED}

\* a call of activate_subscription
Activate(user_id, duration_days) ==
    /\ IF invalid_duration(duration_days)
       THEN /\ last' = [Step("activate", 0, user_id, "invalid_duration")
                           EXCEPT !.days = duration_days]
            /\ UNCHANGED <<subscriptions, jf>>
       ELSE IF user_id \notin DOMAIN users
       THEN /\ last' = [Step("activate", 0, user_id, "unknown_user")
                           EXCEPT !.days = duration_days]
            /\ UNCHANGED <<subscriptions, jf>>
       ELSE IF permanent_access(users[user_id].role)
       THEN /\ last' = [Step("activate", 0, user_id, "none")
                           EXCEPT !.days = duration_days]
            /\ UNCHANGED <<subscriptions, jf>>
       ELSE \E ok \in BOOLEAN :
            LET enabled == set_user_enabled(jf, users[user_id].username, ok) IN
            /\ activate_subscription(user_id, duration_days) <= MaxExpiry
            /\ subscriptions' = Put(subscriptions, user_id,
                   [expires_at |-> activate_subscription(user_id, duration_days)])
            /\ jf' = IF enabled
                     THEN AccountEnabled(jf, users[user_id].username, TRUE) ELSE jf
            /\ last' = WithCalls(
                   Activated(Step("activate", 0, user_id, "activated"),
                             NoReq, user_id, duration_days),
                   {"enable"}, IF enabled THEN {} ELSE {"enable"})
    /\ UNCHANGED <<idVars, reqVars, payment_requests, pay_prompts, now, monVars,
                   promptVars, restVars>>

NextLedger ==
    \/ \E s \in {SECONDS_PER_DAY} : Tick(s)
    \/ \E u \in LedgerIds : CheckStatus(u)
    \/ \E u \in LedgerIds, d \in ActivateDays : Activate(u, d)
    \/ \E a \in TgIds, n \in RegNames : SubEnd(a, n)
    \/ \E a \in TgIds, u \in RegNames : AdminUpgrade(a, u)
    \/ \E a \in TgIds, n \in RegNames, r \in {ROLE_REGULAR, ROLE_PRIVILEGED},
          ok \in BOOLEAN : AdminDowngrade(a, n, r, ok)
    \/ MonSnapshot
    \/ \E u \in RegNames : MonExpire(u)
    \/ \E d \in SUBSET RegNames : MonEnforce(d)

SpecLedger == InitSub /\ [][NextLedger]_vars

----------------------------------------------------------------------------
(* From registration to expiry: a requester registers, is approved, pays,   *)
(* is promoted, and the monitor runs, starting from the state after startup *)
(* of Init.                                                                 *)

NextLife ==
    \/ \E s \in {SECONDS_PER_DAY} : Tick(s)
    \/ \E t \in Requesters : Register(t)
    \/ \E t \in Requesters, n \in RegNames : UsernameInput(t, n)
    \/ \E a \in TgIds, t \in Requesters : Approve(a, t)
    \/ \E t \in Requesters, p \in DOMAIN subscription_plans : PlanSelect(t, p)
    \/ \E t \in Requesters : PaymentPhoto(t)
    \/ \E a \in TgIds, r \in RequestIds : PayApprove(a, r)
    \/ \E a \in TgIds, n \in RegNames, d \in Days : SubExtend(a, n, d)
    \/ \E a \in TgIds, n \in RegNames : SubEnd(a, n)
    \/ \E t \in Requesters : Upgrade(t)
    \/ \E a \in TgIds, t \in Requesters : RoleUpgrade(a, t)
    \/ \E a \in TgIds, u \in RegNames : AdminUpgrade(a, u)
    \/ MonSnapshot
    \/ \E u \in RegNames : MonExpire(u)
    \/ \E d \in SUBSET RegNames : MonEnforce(d)

SpecLife == Init /\ [][NextLife]_vars

----------------------------------------------------------------------------
(* Properties of the request workflows (Spec) *)

\* the stores of the identity registry, the request table and the ledger
stores == <<users, telegram_to_userid, username_to_uid, admins, pending,
            subscriptions, payment_requests>>

\* C1: of the approve presses on one registration request at most one adds a
\* User and creates a media account: a press that finds no PendingRequest
\* reports already processed, makes no media-server call and changes no store;
\* a press that adds a User found the request and no user on the requester's
\* chat, adds exactly one User and creates exactly one account; and an approval
\* that completes has removed the request, so that the next press finds none.
C1_ApprovalRace ==
    [][last'.op = "approve" =>
        /\ last'.chat \notin DOMAIN pending =>
              /\ last'.outcome = "already_processed"
              /\ last'.calls = {}
              /\ UNCHANGED <<stores, jf>>
        /\ users' # users =>
              /\ last'.chat \in DOMAIN pending
              /\ get_user_by_telegram_id(last'.chat) = NoUser
              /\ Cardinality(DOMAIN users' \ DOMAIN users) = 1
              /\ Cardinality(DOMAIN jf' \ DOMAIN jf) = 1
              /\ \A u \in DOMAIN users : users'[u] = users[u]
        /\ last'.outcome = "approved" =>
              /\ users' # users
              /\ last'.chat \notin DOMAIN pending'
    ]_vars

\* C1: a second approve press arrived after the registration was approved
C1_SecondPress ==
    /\ last.op = "approve"
    /\ last.outcome = "already_processed"
    /\ \E u \in DOMAIN users :
          /\ users[u].telegram_id = last.chat
          /\ users[u].username \in RegNames
          /\ users[u].role = ROLE_REGULAR

\* the commands that create a PendingRequest
RequestCommands == {"username", "linkme", "unlinkme", "upgrade"}

\* C2: a request-creating command of a requester who already has a
\* PendingRequest creates no request
C2_OnePendingPerRequester ==
    (last.op \in RequestCommands /\ last.before # "none") => last.outcome # "created"

\* C3: the chat-id index maps c to u exactly when u's record carries c
C3_ChatIndexConsistent ==
    /\ \A u \in DOMAIN users :
          users[u].telegram_id # NoTelegramId =>
             /\ users[u].telegram_id \in DOMAIN telegram_to_userid
             /\ telegram_to_userid[users[u].telegram_id] = u
    /\ \A c \in DOMAIN telegram_to_userid :
          /\ telegram_to_userid[c] \in DOMAIN users
          /\ users[telegram_to_userid[c]].telegram_id = c

\* C4: at most one User record carries a given chat-id
C4_OneUserPerChat ==
    \A u, v \in DOMAIN users :
       (users[u].telegram_id # NoTelegramId
           /\ users[u].telegram_id = users[v].telegram_id) => u = v

ApprovedKind ==
    [op \in {"approve", "link_approve", "unlink_approve", "role_upgrade", "reset_ok"}
        |-> IF op = "approve" THEN "register"
            ELSE IF op = "link_approve" THEN "link"
            ELSE IF op = "unlink_approve" THEN "unlink"
            ELSE IF op = "role_upgrade" THEN "role_upgrade"
            ELSE "password_reset"]

\* C8: an approve action takes effect only on a PendingRequest of its kind
C8_ApproveNeedsRequest ==
    (last.op \in DOMAIN ApprovedKind /\ last.outcome \in {"approved", "save_failed"})
        => last.before = ApprovedKind[last.op]

\* C9: after /cancel the requester has neither a PendingRequest nor an
\* awaiting-input entry
C9_CancelClears ==
    last.op = "cancel" =>
        /\ last.chat \notin DOMAIN pending
        /\ last.chat \notin awaiting_username

----------------------------------------------------------------------------
(* Properties of the subscription lifecycle (SpecSub) *)

\* C5: an activation of d days (payment approval, admin extend) of a regular
\* user sets the expiry to the expiry found, if that is still in the future,
\* otherwise to the current time, plus d * 86400, which is later than the
\* expiry found
C5_ActivateExpiry ==
    (last.op \in {"pay_approve", "subextend"}
        /\ last.outcome \in {"approved", "extended"}) =>
        /\ last.uid \in DOMAIN subscriptions
        /\ users[last.uid].role = ROLE_REGULAR
        /\ subscriptions[last.uid].expires_at =
              (IF last.prev > now THEN last.prev ELSE now) + last.days * 86400
        /\ subscriptions[last.uid].expires_at > last.prev

\* C5: a payment was approved while the user's earlier window was running
C5_Renewed ==
    /\ last.op = "pay_approve"
    /\ last.outcome = "approved"
    /\ last.prev > now
    /\ subscriptions[last.uid].expires_at = last.prev + last.days * 86400

\* C6: a press on a payment request that is already decided decides nothing
C6_DecidedOnce ==
    (last.op \in {"pay_approve", "pay_reject"}
        /\ last.before \in {"approved", "rejected"}) =>
        last.outcome \notin {"approved", "rejected"}

\* C10: when the disable call of the monitor fails the ledger is unchanged
\* and nobody is notified; the entry of a user who stays in the registry
\* leaves the ledger only in a monitor step whose disable call for that user
\* succeeded; and every pass starts from all the entries that have expired,
\* those left by a failed disable among them
C10_MonitorRetry ==
    [][/\ (last'.op = "mon_expire" /\ "disable" \in last'.failed) =>
              /\ subscriptions' = subscriptions
              /\ last'.uid \in DOMAIN subscriptions'
              /\ last'.notified = {}
       /\ \A u \in DOMAIN subscriptions :
              (u \notin DOMAIN subscriptions' /\ u \in DOMAIN users') =>
                  /\ last'.op = "mon_expire"
                  /\ last'.uid = u
                  /\ last'.calls = {"disable"}
                  /\ last'.failed = {}
                  /\ ~jf'[Lower(users[u].username)].enabled
       /\ last'.op = "mon_snapshot" =>
              \A u \in DOMAIN subscriptions :
                  subscriptions[u].expires_at <= now => u \in expired_users'
    ]_vars

\* C10: the disable call of the monitor failed and the expired entry is kept
C10_DisableFailed ==
    /\ last.op = "mon_expire"
    /\ "disable" \in last.failed
    /\ last.uid \in DOMAIN subscriptions
    /\ subscriptions[last.uid].expires_at <= now

----------------------------------------------------------------------------
(* Properties of the username index (SpecNames) *)

----------------------------------------------------------------------------
(* Properties of the path from registration to expiry (SpecLife) *)

\* C11: a disable call of the monitor's expiry step is for a regular user
C11_MonitorSparesPrivileged ==
    (last.op = "mon_expire" /\ "disable" \in last.calls /\ last.uid \in DOMAIN users)
        => users[last.uid].role = ROLE_REGULAR

\* C12: every Subscription entry of a registered user is that of a regular
\* user
C12_NoLedgerForPrivileged ==
    \A u \in DOMAIN subscriptions :
        u \in DOMAIN users => users[u].role = ROLE_REGULAR

\* C17: an approved registration leaves a regular User linked to the
\* requester's chat, with no Subscription entry and status (false, none); an
\* approved payment for a plan of d days of a user with no running window
\* leaves the status (true, time of the approval + d * 86400)
C17_RegisterThenPay ==
    /\ (last.op = "approve" /\ last.outcome = "approved") =>
          /\ last.uid \in DOMAIN users
          /\ users[last.uid].role = ROLE_REGULAR
          /\ users[last.uid].telegram_id = last.chat
          /\ get_user_by_telegram_id(last.chat) = last.uid
          /\ last.uid \notin DOMAIN subscriptions
          /\ check_subscription_status(last.uid) = <<FALSE, 0>>
    /\ (last.op = "pay_approve" /\ last.outcome = "approved" /\ last.prev <= now) =>
          /\ last.days =
                (IF payment_requests[last.req].plan_id = "1day" THEN 1 ELSE 7)
          /\ check_subscription_status(last.uid) =
                <<TRUE, now + last.days * 86400>>

\* C17: the 7-day payment of a user who registered and had no entry was
\* approved
C17_PaidWeek ==
    /\ last.op = "pay_approve"
    /\ last.outcome = "approved"
    /\ last.prev = 0
    /\ last.days = 7
    /\ users[last.uid].telegram_id = last.chat
    /\ users[last.uid].username \in RegNames
    /\ check_subscription_status(last.uid) = <<TRUE, now + 7 * 86400>>

----------------------------------------------------------------------------
(* Properties of the monitor pass (SpecSub) *)

\* C13, as the specification states it: a pass that starts on a settled
\* ledger and runs with no event in between issues no disable call and sends
\* no notification
C13_NoFurtherCalls ==
    [][(last.op = "mon_snapshot" /\ expired_users = {}
           /\ last'.op \in {"mon_expire", "mon_enforce"}) =>
          (last'.calls = {} /\ last'.notified = {})
    ]_vars

\* C13: a pass that starts on a settled ledger selects no entry; the expiry
\* step runs only for the selected entries, so such a pass removes nothing and
\* notifies nobody; its access check changes no ledger entry, notifies nobody,
\* issues disable calls exactly when some regular user has no running window,
\* and changes only accounts of such users, from enabled to disabled
C13_SettledPass ==
    [][LET no_access(u) ==
              /\ users[u].role = ROLE_REGULAR
              /\ ~(u \in DOMAIN subscriptions /\ subscriptions[u].expires_at > now)
       IN
       /\ (last'.op = "mon_snapshot"
              /\ \A u \in DOMAIN subscriptions : subscriptions[u].expires_at > now)
             => expired_users' = {}
       /\ last'.op = "mon_expire" => last'.uid \in expired_users
       /\ last'.op = "mon_enforce" =>
             /\ expired_users = {}
             /\ last'.notified = {}
             /\ subscriptions' = subscriptions
             /\ last'.calls = (IF \E u \in DOMAIN users : no_access(u)
                               THEN {"disable"} ELSE {})
             /\ \A a \in DOMAIN jf :
                   jf'[a] # jf[a] =>
                      /\ jf[a].enabled /\ ~jf'[a].enabled
                      /\ \E u \in DOMAIN users :
                            Lower(users[u].username) = a /\ no_access(u)
    ]_vars

\* C13: the access check of a pass over a settled ledger called disable again
\* for a regular user whose account was already disabled and has no entry
C13_SettledRecheck ==
    /\ last.op = "mon_enforce"
    /\ last.calls = {"disable"}
    /\ last.notified = {}
    /\ \A u \in DOMAIN subscriptions : subscriptions[u].expires_at > now
    /\ \E u \in DOMAIN users :
          /\ users[u].role = ROLE_REGULAR
          /\ u \notin DOMAIN subscriptions
          /\ ~jf[Lower(users[u].username)].enabled

\* C14: an entry whose expiry has passed is eventually gone from the ledger
\* with its user disabled or deleted, unless it is renewed; every pass selects
\* all entries with expiry <= now, and an expiry step whose disable call
\* succeeded has removed the entry and left the account disabled
C14_ExpiredRemoved ==
    /\ \A u \in RegNames :
          (u \in DOMAIN subscriptions /\ subscriptions[u].expires_at <= now)
          ~> \/ /\ u \notin DOMAIN subscriptions
                /\ u \in DOMAIN users => ~jf[Lower(users[u].username)].enabled
             \/ /\ u \in DOMAIN subscriptions
                /\ subscriptions[u].expires_at > now
    /\ [][/\ last'.op = "mon_snapshot" =>
                \A u \in DOMAIN subscriptions :
                    subscriptions[u].expires_at <= now => u \in expired_users'
          /\ (last'.op = "mon_expire" /\ last'.outcome = "expired") =>
                /\ last'.uid \in expired_users
                /\ last'.uid \notin DOMAIN subscriptions'
                /\ ~jf'[Lower(users[last'.uid].username)].enabled
       ]_vars

\* C14: the monitor disabled a user whose expiry had passed and removed the
\* entry
C14_Settled ==
    /\ last.op = "mon_expire"
    /\ last.outcome = "expired"
    /\ last.prev > 0
    /\ last.prev <= now
    /\ last.uid \notin DOMAIN subscriptions
    /\ ~jf[Lower(users[last.uid].username)].enabled

----------------------------------------------------------------------------
(* Properties of the ledger operations (SpecLedger) *)

\* C15: an activation for an admin or privileged user returns none, leaves
\* the ledger as it was and makes no media-server call
C15_ExemptActivation ==
    [][(last'.op = "activate" /\ last'.days > 0 /\ last'.uid \in DOMAIN users
           /\ users[last'.uid].role \in {ROLE_ADMIN, ROLE_PRIVILEGED}) =>
          /\ last'.outcome = "none"
          /\ subscriptions' = subscriptions
          /\ last'.calls = {}
          /\ jf' = jf
    ]_vars

\* C15: an activation was asked for a privileged user who still has the entry
\* of an earlier window
C15_PrivilegedActivation ==
    /\ last.op = "activate"
    /\ last.outcome = "none"
    /\ users[last.uid].role = ROLE_PRIVILEGED
    /\ last.uid \in DOMAIN subscriptions

\* C16: the status of an admin or privileged user is (true, none) whatever the
\* ledger holds; that of a regular user is (true, expires_at) when the ledger
\* has an entry with expires_at > now, and (false, none) otherwise
C16_Status ==
    (last.op = "status" /\ last.uid \in DOMAIN users) =>
        LET u == last.uid IN
        IF users[u].role \in {ROLE_ADMIN, ROLE_PRIVILEGED}
        THEN last.outcome = "active" /\ last.prev = 0
        ELSE IF u \in DOMAIN subscriptions /\ subscriptions[u].expires_at > now
        THEN last.outcome = "active" /\ last.prev = subscriptions[u].expires_at
        ELSE last.outcome = "inactive" /\ last.prev = 0

\* C16: the status of a privileged user whose ledger entry has expired was
\* asked for
C16_PrivilegedExpired ==
    /\ last.op = "status"
    /\ last.outcome = "active"
    /\ last.prev = 0
    /\ last.uid \in DOMAIN users
    /\ users[last.uid].role = ROLE_PRIVILEGED
    /\ last.uid \in DOMAIN subscriptions
    /\ subscriptions[last.uid].expires_at <= now

\* C19: an activation with days <= 0 fails as an invalid duration, one with
\* days > 0 for an id no user has fails as an unknown user; both leave the
\* ledger as it was and make no media-server call
C19_RejectedActivation ==
    [][last'.op = "activate" =>
          /\ last'.days <= 0 =>
                /\ last'.outcome = "invalid_duration"
                /\ subscriptions' = subscriptions
                /\ last'.calls = {}
                /\ jf' = jf
          /\ (last'.days > 0 /\ last'.uid \notin DOMAIN users) =>
                /\ last'.outcome = "unknown_user"
                /\ subscriptions' = subscriptions
                /\ last'.calls = {}
                /\ jf' = jf
    ]_vars

\* C19: an activation was asked for an id no user has while the ledger held
\* an entry
C19_UnknownUser ==
    /\ last.op = "activate"
    /\ last.outcome = "unknown_user"
    /\ last.days > 0
    /\ last.uid \notin DOMAIN users
    /\ DOMAIN subscriptions # {}

----------------------------------------------------------------------------
(* Properties of the startup (SpecBoot) *)

\* C20: the first step of the process is the startup; the admin table it
\* builds is empty exactly when no user has the admin flag and a chat id, and
\* then the process has stopped: the monitor thread is never started and no
\* step follows
C20_NoAdminStops ==
    [][/\ mon_pc = "off" => last'.op = "start"
       /\ last'.op = "start" =>
             /\ DOMAIN admins' = {} <=>
                   ~\E u \in DOMAIN users' :
                        users'[u].is_admin /\ users'[u].telegram_id # NoTelegramId
             /\ DOMAIN admins' = {} => (mon_pc' = "stopped" /\ last'.outcome = "exit")
       /\ mon_pc # "stopped"
    ]_vars

\* C20: the process stopped at startup with an admin who has no chat id
C20_Stopped ==
    /\ mon_pc = "stopped"
    /\ last.op = "start"
    /\ last.outcome = "exit"
    /\ DOMAIN admins = {}
    /\ \E u \in DOMAIN users :
          users[u].is_admin /\ users[u].telegram_id = NoTelegramId

----------------------------------------------------------------------------
(* Renewal while a monitor pass is in progress.                              *)

\* C21: the pass removes an entry, and disables its user, only if the entry's
\* expiry is at or before the present at the moment of removal; an entry
\* renewed after the snapshot is neither removed nor its user disabled.
C21_RemovesOnlyExpired ==
    (last.op = "mon_expire" /\ last.outcome = "expired") => last.prev <= now

----------------------------------------------------------------------------
(* Payment approval for a user who was promoted in the meantime, and the     *)
(* enable call of the operations that open a window.                         *)

\* C23: when an admin approves a payment whose target user is by then
\* privileged or admin, the decision completes without being treated as a
\* failure, the payment request leaves the pending status, and no
\* subscription entry is created.
C23_PrivilegedPaymentDecided ==
    (/\ last.op = "pay_approve"
     /\ last.req \in DOMAIN payment_requests
     /\ last.uid \in DOMAIN users
     /\ users[last.uid].role \in {ROLE_ADMIN, ROLE_PRIVILEGED})
    => /\ last.outcome # "error"
       /\ payment_requests[last.req].status # "pending"
       /\ last.uid \notin DOMAIN subscriptions

\* C30: every operation that gives a regular user an active window (payment
\* approval, admin extend) issues an enable call for the user's account.
C30_WindowEnables ==
    (last.op \in {"pay_approve", "subextend"}
     /\ last.outcome \in {"approved", "extended"})
    => "enable" \in last.calls

----------------------------------------------------------------------------
(* Role changes *)

\* C27: every role change moves a user exactly one step along regular -
\* privileged - admin: an upgrade raises the role by one step, a downgrade
\* lowers it by one step; no operation moves a user from admin to regular,
\* and the downgrade command raises no role.
C27_OneStepRoleChange ==
    [][\A u \in DOMAIN users \cap DOMAIN users' :
         LET raised == {<<ROLE_REGULAR, ROLE_PRIVILEGED>>, <<ROLE_PRIVILEGED, ROLE_ADMIN>>}
             lowered == {<<ROLE_ADMIN, ROLE_PRIVILEGED>>, <<ROLE_PRIVILEGED, ROLE_REGULAR>>}
             change == <<users[u].role, users'[u].role>>
         IN
         users'[u].role # users[u].role =>
             IF last'.op = "downgrade" THEN change \in lowered ELSE change \in raised]_vars

----------------------------------------------------------------------------
(* Roles and the admin table: startup, then registration, the role commands *)
(* and requests, and the link, unlink and delete commands of an admin.      *)

\* the users the role, unlink and delete commands are aimed at: the last
\* configured admin and the registered user
RoleTargets == {AdminNames[MaxAdmins]} \cup RegNames

NextRoles ==
    \/ Startup
    \/ Serving /\ \E t \in Requesters : Register(t)
    \/ Serving /\ \E t \in Requesters, n \in RegNames : UsernameInput(t, n)
    \/ Serving /\ \E a \in TgIds, t \in Requesters : Approve(a, t)
    \/ Serving /\ \E t \in Requesters : Upgrade(t)
    \/ Serving /\ \E a \in TgIds, t \in Requesters : RoleUpgrade(a, t)
    \/ Serving /\ \E a \in TgIds, u \in RoleTargets : AdminUpgrade(a, u)
    \/ Serving /\ \E a \in TgIds, n \in RoleTargets,
                     r \in {ROLE_REGULAR, ROLE_PRIVILEGED} :
                         AdminDowngrade(a, n, r, TRUE)
    \/ Serving /\ \E a \in TgIds, n \in RoleTargets : AdminUnlink(a, n)
    \/ Serving /\ \E a \in TgIds, u \in RegNames : AdminDelete(a, u, TRUE)

SpecRoles == InitBoot /\ [][NextRoles]_vars

\* C28: after startup normalization and after every role change (admin
\* upgrade, admin downgrade, approved role-upgrade request, registration
\* approval), every user has role = admin exactly when its admin flag is set.
C28_RoleMatchesFlag ==
    mon_pc # "off" =>
        \A u \in DOMAIN users : (users[u].role = ROLE_ADMIN) <=> users[u].is_admin

\* a user has just been raised to admin from the user menu, while the first
\* configured admin is an admin too
C28_PromotedToAdmin ==
    /\ last.op = "admin_upgrade"
    /\ last.outcome = ROLE_ADMIN
    /\ users[last.uid].is_admin
    /\ AdminNames[1] \in DOMAIN users
    /\ users[AdminNames[1]].is_admin

\* C29: after every role change, link, unlink or delete, the admin lookup
\* table contains exactly the chat-ids of the users whose role is admin and
\* whose chat-id is set.
C29_AdminTableCurrent ==
    Serving =>
        DOMAIN admins = {users[u].telegram_id :
                            u \in {x \in DOMAIN users : users[x].role = ROLE_ADMIN}}
                        \ {NoTelegramId}

----------------------------------------------------------------------------
(* The prompts of a request: the messages in the admin chats are followed   *)
(* from the state after startup of InitSub, through the role-upgrade        *)
(* requests of the registered user, the listings and the decisions.         *)

InitPrompts ==
    /\ InitWith(SubUsers,
                ServerOf(SubUsers, [u \in DOMAIN SubUsers |-> u \notin RegNames]))
    /\ message_ids = TRUE

NextPrompts ==
    \/ \E t \in Requesters : Upgrade(t)
    \/ \E a \in TgIds : PendingList(a)
    \/ \E a \in TgIds, t \in Requesters : Approve(a, t)
    \/ \E a \in TgIds, t \in Requesters : Reject(a, t)
    \/ \E a \in TgIds, t \in Requesters : RoleUpgrade(a, t)
    \/ \E a \in TgIds, t \in Requesters : RoleUpgradeReject(a, t)

SpecPrompts == InitPrompts /\ [][NextPrompts]_vars

\* the kind of PendingRequest the buttons of each decision belong to
DecidedKind ==
    [op \in {"approve", "reject", "link_approve", "link_reject", "unlink_approve",
             "unlink_reject", "role_upgrade", "role_upgrade_reject"} |->
        IF op \in {"approve", "reject"} THEN "register"
        ELSE IF op \in {"link_approve", "link_reject"} THEN "link"
        ELSE IF op \in {"unlink_approve", "unlink_reject"} THEN "unlink"
        ELSE "role_upgrade"]

\* the last step approved or rejected a PendingRequest through a button of
\* its own kind
RequestDecided ==
    /\ last.op \in DOMAIN DecidedKind
    /\ last.outcome \in {"approved", "rejected"}
    /\ last.before = DecidedKind[last.op]

\* C24: when an admin decides a request, every prompt that was sent for the
\* request and still shows its buttons is relabeled, the earlier prompt of an
\* admin who got a second one by listing the pending requests included.
C24_AllPromptsRelabeled ==
    RequestDecided =>
        \A m \in buttons : m.key # RequestKey(last.before, last.chat)

\* C25: whenever a PendingRequest is destroyed, the prompt set recorded under
\* its request key is destroyed with it: the prompt table has no entry for
\* that key afterwards.
C25_PromptSetDestroyed ==
    RequestDecided =>
        RequestKey(last.before, last.chat) \notin DOMAIN admin_request_messages

\* C26: the request key under which a prompt is recorded, at the creation of
\* the request and by the pending listing, equals the request key used by
\* the handlers of the buttons it carries, for every kind of request.
C26_RecordedUnderButtonKey ==
    \A m \in buttons : m.callback = m.key


----------------------------------------------------------------------------
(* Decisions and the sweeper thread.  cleanup_loop runs cleanup_stale_data *)
(* on its own thread, so a sweep can fall between two statements of a      *)
(* handler.  Here a decision is taken in two steps, up to the read of the  *)
(* request and from there on, and the sweep is a step of its own.  The     *)
(* state after startup holds a request that was persisted seven days       *)
(* earlier: the sweep of the startup keeps it, a sweep a day later does    *)
(* not.                                                                    *)

\* cleanup_stale_data: "pending_timeout = 86400 * 7"
pending_timeout == 7 * SECONDS_PER_DAY
\* cleanup_stale_data: "payment_timeout = 86400 * 28"
payment_timeout == 28 * SECONDS_PER_DAY

\* cleanup_stale_data: the requests it removes
stale_pending ==
    {uid \in DOMAIN pending : now - pending[uid].requested_at > pending_timeout}

\* cleanup_stale_data: the payment requests still pending that it removes (a
\* request id carries its creation time)
stale_payments ==
    {r \in DOMAIN payment_requests :
        payment_requests[r].status = "pending" /\ now - r[2] > pending_timeout}

\* cleanup_stale_data: the decided payment requests it may remove (the time of
\* the decision is between the creation and now)
old_payments ==
    {r \in DOMAIN payment_requests :
        payment_requests[r].status # "pending" /\ now - r[2] > payment_timeout}

\* cleanup_stale_data, as run by cleanup_loop; it takes no lock.  The model
\* keeps no age for the chats in awaiting_username: any of them may be older
\* than an hour
Sweep ==
    /\ \E stale \in SUBSET awaiting_username :
           awaiting_username' = awaiting_username \ stale
    /\ pending' = [uid \in DOMAIN pending \ stale_pending |-> pending[uid]]
    /\ \E old \in SUBSET old_payments :
           payment_requests' =
               [r \in DOMAIN payment_requests \ (stale_payments \cup old) |->
                   payment_requests[r]]
    /\ subscriptions' =
           [u \in DOMAIN subscriptions \cap DOMAIN users |-> subscriptions[u]]
    /\ last' = Step("cleanup", 0, NoUser,
                    IF stale_pending = {} THEN "kept" ELSE "removed")
    /\ UNCHANGED <<idVars, prompts, pay_prompts, jf, now, monVars, promptVars,
                   restVars>>

\* no handler is between the read of a request and its last statement
Idle == decision = NoDecision

Fetched(action, uid) == <<[action |-> action, uid |-> uid, p |-> pending[uid]]>>

\* handle_update, action == "approve", up to "p = pending.get(uid)": the
\* handler enters "with approval_lock"
ApproveFetch(tg_id, uid) ==
    /\ Idle
    /\ ~approval_lock
    /\ Pressed(tg_id, "register", uid)
    /\ IF uid \notin DOMAIN pending
       THEN /\ last' = Step("approve", uid, NoUser, "already_processed")
            /\ UNCHANGED <<approval_lock, decision>>
       ELSE /\ approval_lock' = TRUE
            /\ decision' = Fetched("approve", uid)
            /\ last' = Step("approve", uid, NoUser, "fetched")
    /\ UNCHANGED <<idVars, reqVars, subVars, jf, now, monVars, promptVars,
                   message_ids>>

\* handle_update, action == "approve", from the read of the request to the
\* end of the handler: the lock is released on every way out
ApproveFinish ==
    /\ ~Idle
    /\ decision[1].action = "approve"
    /\ ApproveFetched(decision[1].uid, decision[1].p)
    /\ Relabel(RequestKey("register", decision[1].uid), last'.outcome = "approved")
    /\ approval_lock' = FALSE
    /\ decision' = NoDecision
    /\ UNCHANGED <<admins, awaiting_username, prompts, subVars, now, monVars,
                   message_ids>>

\* handle_update, action == "link_approve", up to "p = pending[uid]": no lock
\* is taken
LinkApproveFetch(tg_id, uid) ==
    /\ Idle
    /\ Pressed(tg_id, "link", uid)
    /\ IF uid \notin DOMAIN pending
       THEN /\ last' = Step("link_approve", uid, NoUser, "already_processed")
            /\ UNCHANGED decision
       ELSE /\ decision' = Fetched("link_approve", uid)
            /\ last' = Step("link_approve", uid, NoUser, "fetched")
    /\ UNCHANGED <<idVars, reqVars, subVars, jf, now, monVars, promptVars,
                   message_ids, approval_lock>>

\* handle_update, action == "link_approve", from the read of the request on
LinkApproveFinish ==
    /\ ~Idle
    /\ decision[1].action = "link_approve"
    /\ LinkFetched(decision[1].uid, decision[1].p)
    /\ Relabel(RequestKey("link", decision[1].uid), last'.outcome = "approved")
    /\ decision' = NoDecision
    /\ UNCHANGED <<username_to_uid, admins, awaiting_username, prompts, subVars, jf,
                   now, monVars, message_ids, approval_lock>>

\* the request that was persisted before the restart: a registration or a link
\* to the imported account
OldRequests ==
    {[type |-> "register", username |-> n, requested_at |-> 0 - pending_timeout,
      jellyfin_user_id |-> NoUser, target_role |-> ""] : n \in RegNames}
    \cup {[type |-> "link", username |-> "bob", requested_at |-> 0 - pending_timeout,
           jellyfin_user_id |-> "bob", target_role |-> ""]}

InitSweep ==
    /\ users = StartUsers
    /\ telegram_to_userid = BuiltTelegramMapping(StartUsers)
    /\ username_to_uid = BuiltUsernameMapping(StartUsers)
    /\ admins = BuiltAdmins(StartUsers)
    /\ \E uid \in Requesters, p \in OldRequests :
           /\ pending = Put(EmptyDict, uid, p)
           /\ prompts = {<<p.type, uid>>}
    /\ awaiting_username = {}
    /\ subscriptions = EmptyDict
    /\ payment_requests = EmptyDict
    /\ pay_prompts = {}
    /\ jf = ServerOf(StartUsers, [u \in DOMAIN StartUsers |-> TRUE])
    /\ now = 0
    /\ mon_pc = "sleep"
    /\ expired_users = {}
    /\ admin_request_messages = EmptyDict
    /\ buttons = {}
    /\ message_ids = FALSE
    /\ approval_lock = FALSE
    /\ decision = NoDecision
    /\ last = Step("start", 0, NoUser, "ok")

\* the event thread handles one update at a time; the sweeper and the clock
\* run beside it
NextSweep ==
    \/ Tick(SECONDS_PER_DAY)
    \/ Sweep
    \/ \E tg_id \in Requesters, n \in {"Bob"} : Idle /\ Linkme(tg_id, n)
    \/ \E tg_id \in DOMAIN admins, uid \in Requesters : Idle /\ Reject(tg_id, uid)
    \/ \E tg_id \in DOMAIN admins, uid \in Requesters : Idle /\ LinkReject(tg_id, uid)
    \/ \E tg_id \in DOMAIN admins, uid \in Requesters : ApproveFetch(tg_id, uid)
    \/ \E tg_id \in DOMAIN admins, uid \in Requesters : LinkApproveFetch(tg_id, uid)
    \/ ApproveFinish
    \/ LinkApproveFinish

SpecSweep == InitSweep /\ [][NextSweep]_vars

\* C22: while a decision is between the read of the request and its last
\* statement, the approval lock is held and the request it read is still the
\* one in the table: nothing was done to it by another decision or by the
\* sweeper
C22_DecisionUnderLock ==
    ~Idle =>
        /\ approval_lock
        /\ decision[1].uid \in DOMAIN pending
        /\ pending[decision[1].uid] = decision[1].p


----------------------------------------------------------------------------
(* Ending a subscription (SpecSub) *)

\* C31: /subend on a regular user who has an entry sets the entry's expiry to
\* now - 1, keeps the entry, disables nobody and sends no expiry notice; every
\* later snapshot selects an entry whose expiry has passed; the expiry step of
\* a registered user whose disable call succeeded leaves the account
\* disabled, sends the notice to the user's chat once and removes the entry;
\* and an expiry notice is sent only by such a step, for an entry that was in
\* the ledger and is removed by it, so no later pass repeats it
C31_EndedThenExpired ==
    [][/\ (last'.op = "subend" /\ last'.outcome = "ended") =>
              /\ last'.uid \in DOMAIN subscriptions
              /\ users[last'.uid].role = ROLE_REGULAR
              /\ DOMAIN subscriptions' = DOMAIN subscriptions
              /\ subscriptions'[last'.uid].expires_at = now - 1
              /\ \A u \in DOMAIN subscriptions \ {last'.uid} :
                     subscriptions'[u] = subscriptions[u]
              /\ jf' = jf
              /\ last'.notified = {}
       /\ last'.op = "mon_snapshot" =>
              \A u \in DOMAIN subscriptions :
                  subscriptions[u].expires_at < now => u \in expired_users'
       /\ (last'.op = "mon_expire" /\ last'.uid \in DOMAIN users
              /\ last'.failed = {}) =>
              /\ last'.outcome = "expired"
              /\ ~jf'[Lower(users[last'.uid].username)].enabled
              /\ last'.notified = {users[last'.uid].telegram_id} \ {NoTelegramId}
              /\ last'.uid \notin DOMAIN subscriptions'
              /\ last'.uid \notin expired_users'
       /\ last'.notified # {} =>
              /\ last'.op = "mon_expire"
              /\ last'.outcome = "expired"
              /\ last'.uid \in DOMAIN subscriptions
              /\ last'.uid \notin DOMAIN subscriptions'
              /\ last'.notified = {users[last'.uid].telegram_id}
    ]_vars

\* C31: the monitor has disabled and notified a user whose entry had been
\* ended by /subend, and the entry is gone
C31_EndedEntryExpired ==
    /\ last.op = "mon_expire"
    /\ last.outcome = "expired"
    /\ (last.prev + 1) % SECONDS_PER_DAY = 0
    /\ last.prev < now
    /\ last.notified = {users[last.uid].telegram_id}
    /\ last.uid \notin DOMAIN subscriptions
    /\ ~jf[Lower(users[last.uid].username)].enabled


----------------------------------------------------------------------------
(* The access check of regular users (SpecLedger) *)

C33_PassEnforcesAccess ==
    [][LET active(u) == /\ u \in DOMAIN subscriptions
                        /\ subscriptions[u].expires_at > now
           no_access(u) == users[u].role = ROLE_REGULAR /\ ~active(u)
       IN
       /\ last'.op = "mon_enforce" =>
             /\ last'.calls = (IF \E u \in DOMAIN users : no_access(u)
                               THEN {"disable"} ELSE {})
             /\ last'.failed = {} =>
                   \A u \in DOMAIN users :
                       no_access(u) => ~jf'[Lower(users[u].username)].enabled
             /\ \A u \in DOMAIN users :
                   (users[u].role = ROLE_REGULAR /\ active(u)) =>
                       jf'[Lower(users[u].username)] = jf[Lower(users[u].username)]
       /\ (last'.op = "mon_expire" /\ "disable" \in last'.calls) =>
             ~(users[last'.uid].role = ROLE_REGULAR /\ active(last'.uid))
    ]_vars


----------------------------------------------------------------------------
(* The delete of a user by an admin (Spec, SpecSub) *)

\* C34: a delete whose media-server call succeeded has removed the user from
\* the registry and the user's entry from the ledger, and no entry of the
\* chat-id index or of the username index is left for the user: none under
\* the user's chat id or username, and none that resolves to the user; a
\* delete whose media-server call failed leaves the registry, the ledger and
\* both indexes as they were
C34_DeleteCascades ==
    [][last'.op = "admin_delete" =>
          LET u == last'.uid IN
          IF "delete" \in last'.failed
          THEN /\ users' = users
               /\ subscriptions' = subscriptions
               /\ telegram_to_userid' = telegram_to_userid
               /\ username_to_uid' = username_to_uid
          ELSE /\ u \in DOMAIN users
               /\ u \notin DOMAIN users'
               /\ u \notin DOMAIN subscriptions'
               /\ users[u].telegram_id \notin DOMAIN telegram_to_userid'
               /\ \A t \in DOMAIN telegram_to_userid' : telegram_to_userid'[t] # u
               /\ Lower(users[u].username) \notin DOMAIN username_to_uid'
               /\ \A n \in DOMAIN username_to_uid' : username_to_uid'[n] # u
    ]_vars

\* C34: a user with a chat id and an indexed username was deleted while the
\* monitor held the user's expired entry in its snapshot, so the entry was
\* still in the ledger; user, entry and index entries are gone
C34_SubscriberDeleted ==
    /\ last.op = "admin_delete"
    /\ last.outcome = "deleted"
    /\ last.chat # NoTelegramId
    /\ mon_pc = "expire"
    /\ last.uid \in expired_users
    /\ last.uid \notin DOMAIN users
    /\ last.uid \notin DOMAIN subscriptions
    /\ last.chat \notin DOMAIN telegram_to_userid
    /\ \A n \in DOMAIN username_to_uid : username_to_uid[n] # last.uid


----------------------------------------------------------------------------
(* A failed write of a document (Spec) *)

\* C35: a step during which the write of a document failed is carried on to
\* its end: what it changed in memory is kept (the approved user is in the
\* registry and in both indexes, so later operations find the user), and the
\* rest of the step is done as well, the request being removed from the
\* pending table
C35_FailedWriteCarriesOn ==
    [][last'.outcome = "save_failed" =>
          /\ last'.uid \in DOMAIN users'
          /\ users'[last'.uid].telegram_id = last'.chat
          /\ last'.chat \in DOMAIN telegram_to_userid'
          /\ telegram_to_userid'[last'.chat] = last'.uid
          /\ last'.chat \notin DOMAIN pending'
    ]_vars


----------------------------------------------------------------------------
(* Decisions that end in a conflict (Spec) *)

\* the decisions on a pending request
DecisionOps ==
    {"approve", "reject", "link_approve", "link_reject", "unlink_approve",
     "unlink_reject", "role_upgrade", "role_upgrade_reject"}

\* C36: a decision that ends with the request already processed, the
\* requester's chat already registered or the target account already linked
\* changes no table: registry, indexes, ledger and pending table are the same
\* after it as before
C36_ConflictMutatesNothing ==
    [][(/\ last'.op \in DecisionOps
        /\ last'.outcome \in {"already_processed", "already_approved",
                              "target_linked"}) =>
          /\ users' = users
          /\ telegram_to_userid' = telegram_to_userid
          /\ username_to_uid' = username_to_uid
          /\ subscriptions' = subscriptions
          /\ pending' = pending
    ]_vars


----------------------------------------------------------------------------
(* Startup normalization (SpecBoot) *)

\* C37: startup normalization settles a disagreement between role and admin
\* flag by the flag: after it a user has the role admin exactly when the
\* admin flag was set in the record that was loaded
C37_FlagDecidesRole ==
    [][last'.op = "start" =>
          /\ DOMAIN users' = DOMAIN users
          /\ \A u \in DOMAIN users :
                 (users'[u].role = ROLE_ADMIN) <=> users[u].is_admin
    ]_vars


----------------------------------------------------------------------------
(* The sweep of the pending table (SpecSweep) *)

\* C38: a sweep at time now removes from the pending table exactly the
\* requests older than seven days, of any kind, and leaves every other
\* request as it was; and a request the sweep has removed is not approved
\* afterwards: an approval ends as approved only while its request is in the
\* table
C38_SweepRemovesStale ==
    [][/\ last'.op = "cleanup" =>
             /\ DOMAIN pending' =
                    {uid \in DOMAIN pending :
                        now - pending[uid].requested_at <= 7 * SECONDS_PER_DAY}
             /\ \A uid \in DOMAIN pending' : pending'[uid] = pending[uid]
       /\ (last'.op \in {"approve", "link_approve"} /\ last'.outcome = "approved") =>
             last'.chat \in DOMAIN pending
    ]_vars


----------------------------------------------------------------------------
(* The index rebuild of the startup (SpecIndex): the process starts with    *)
(* any chat-id index in telegram_mapping.json, entries of chats no user     *)
(* carries and entries that resolve to the wrong user among them, and with  *)
(* a registry in which two users may carry the same chat id.                *)

\* the registries of the startup, and one in which ann and bob carry the
\* chat id of the requester
IndexRegistries ==
    LoadedRegistries
    \cup {[u \in DOMAIN StartAdmins \cup {"ann", "bob"} |->
              IF u \in DOMAIN StartAdmins THEN StartAdmins[u]
              ELSE RegisteredUser(u, MaxAdmins + 1)]}

\* the chat-id indexes the file may hold: over the chats of the model and one
\* more that no user carries
LoadedMappings ==
    UNION {[chats -> {AdminNames[1], "ann", "bob"}] :
              chats \in SUBSET (TgIds \cup {MaxAdmins + 2})}

InitIndex ==
    \E us \in IndexRegistries, m \in LoadedMappings : InitLoaded(us, m)

SpecIndex == InitIndex /\ [][NextBoot]_vars

\* C39: the startup removes from the chat-id index every entry of a chat id
\* that no user carries (the entries it reports as removed are exactly those,
\* and none of them is in the index afterwards), every entry left resolves to
\* a user who carries that chat id, and the rebuild run again on its own
\* result changes neither the chat-id index nor the username index
C39_RebuildIdempotent ==
    [][last'.op = "start" =>
          /\ last'.stale =
                 {t \in DOMAIN telegram_to_userid :
                     ~\E u \in DOMAIN users : users[u].telegram_id = t}
          /\ DOMAIN telegram_to_userid' \cap last'.stale = {}
          /\ \A t \in DOMAIN telegram_to_userid' :
                 /\ telegram_to_userid'[t] \in DOMAIN users'
                 /\ users'[telegram_to_userid'[t]].telegram_id = t
          /\ rebuilt_telegram_mapping(telegram_to_userid', users')
                 = telegram_to_userid'
          /\ rebuilt_username_mapping(EmptyDict, users', DOMAIN users')
                 = username_to_uid'
          /\ rebuilt_username_mapping(username_to_uid', users', DOMAIN users')
                 = username_to_uid'
    ]_vars

\* C39: the startup removed a stale entry from the loaded index, in a
\* registry where two users carry the same chat id
C39_StaleRemoved ==
    /\ last.op = "start"
    /\ last.stale # {}
    /\ DOMAIN telegram_to_userid \cap last.stale = {}
    /\ \E u, v \in DOMAIN users :
          /\ u # v
          /\ users[u].telegram_id = users[v].telegram_id
          /\ users[u].telegram_id \in DOMAIN telegram_to_userid


----------------------------------------------------------------------------
(* The admins of a running bot (SpecAdmins): after the startup the admins   *)
(* use the user menu and the admin commands on every user, the admins       *)
(* themselves among them.                                                   *)

\* the users the menu of /users lists
AdminTargets == {AdminNames[i] : i \in 1 .. MaxAdmins} \cup Managed

NextAdmins ==
    \/ Startup
    \/ Serving /\ \E a \in TgIds, u \in AdminTargets, ok \in BOOLEAN :
                     AdminDelete(a, u, ok)
    \/ Serving /\ \E a \in TgIds, n \in AdminTargets : AdminUnlink(a, n)
    \/ Serving /\ \E a \in TgIds, n \in AdminTargets,
                     r \in {ROLE_REGULAR, ROLE_PRIVILEGED} :
                         AdminDowngrade(a, n, r, TRUE)
    \/ Serving /\ \E a \in TgIds, u \in AdminTargets : AdminUpgrade(a, u)

SpecAdmins == InitBoot /\ [][NextAdmins]_vars

\* C40: while events are served the admin table is not empty: whatever the
\* admins delete, unlink or downgrade after a successful startup, some admin
\* is left who can decide requests
C40_AdminTableNeverEmpty ==
    Serving => DOMAIN admins # {}

====
